---------------------------- MODULE Spec2Model ----------------------------
(***************************************************************************)
(* A model of the PDF accessibility scripts under src/scripts:             *)
(*   analyze_and_tag_pdf.py        document-type classification            *)
(*   add_heading_tags.py           heading heuristic, level estimate,      *)
(*                                 heading structure tree                  *)
(*   add_alt_text_to_images.py     alt-text acquisition, Figure elements   *)
(*   complete_accessibility_*.py   the combined workflows                  *)
(*                                                                         *)
(* A Python string is modelled as a sequence of characters.  A character   *)
(* is a one-character TLA+ string; a non-ASCII character is written as its *)
(* HTML entity name ("&ouml;"), which stands for that single character.    *)
(***************************************************************************)
EXTENDS Integers, Sequences, FiniteSets, TLC

VARIABLES
    pc,             \* position of the running script
    text,           \* classify_document_type: the extracted text
    filename,       \* classify_document_type: the file name
    doc_type,       \* classify_document_type: the returned category
    doc_type_again, \* the category returned by a second call on the same input
    line,           \* heading heuristic: the text line
    is_heading,     \* detect_heading_heuristic(line)
    level,          \* estimate_heading_level(line)
    script,         \* the script that runs
    alt_text_mode,  \* auto | interactive | file | skip
    ANTHROPIC_AVAILABLE,  \* the module flag of add_alt_text_to_images.py
    input_pdf,      \* the PDF at the input path: its catalog and its docinfo
    xobjects,       \* the XObject resources of the input's pages, in page order
    page_texts,     \* the input's pages: per page, what extract_text does
    headings_file,  \* the manual headings JSON file, when one is given
    analysis,       \* the record returned by analyze_pdf
    images,         \* the list of image records
    headings,       \* the list of heading records
    output_pdf,     \* the PDF at the output path, NoFile when there is none
    report,         \* what the verification pass found
    saved,          \* whether this run has saved a PDF at the output path
    api_log,        \* what the description API did, per image of the auto mode
    exit_code,      \* the exit status of the process, NoExit while it runs
    reader,         \* analyze_and_tag_pdf.py: the PdfReader's metadata and page texts
    detector,       \* what the external language detector does when it is called
    detector_calls, \* the number of calls made to the external detector
    language,       \* what detect_language returned, or that it raised
    title,          \* what extract_title_from_pdf returned
    author,         \* what extract_author_from_pdf returned
    text_blocks     \* what extract_text_with_fonts returned

vars == <<pc, text, filename, doc_type, doc_type_again, line, is_heading, level, script,
          alt_text_mode, ANTHROPIC_AVAILABLE, input_pdf, xobjects, page_texts,
          headings_file, analysis, images, headings, output_pdf, report,
          saved, api_log, exit_code, reader, detector, detector_calls, language,
          title, author, text_blocks>>

clsVars  == <<text, filename, doc_type, doc_type_again>>
headVars == <<line, is_heading, level, text_blocks>>
argVars  == <<script, alt_text_mode, ANTHROPIC_AVAILABLE, input_pdf, xobjects,
              page_texts, headings_file, reader>>
anaVars  == <<detector, detector_calls, language, title, author>>
runVars  == <<saved, api_log, exit_code>>
pdfVars  == <<argVars, analysis, images, headings, output_pdf, report, runVars>>

None == "None"

\* The variables of the PDF scripts while no PDF script runs.
\* A path at which there is no file, an analysis and a report not made yet.
NoFile     == [exists |-> FALSE]
NoAnalysis == [made |-> FALSE]
NoReport   == [made |-> FALSE]

\* The exit status: of a running process, and of one that has exited.
NoExit       == [exited |-> FALSE]
Exited(code) == [exited |-> TRUE, code |-> code]

\* No reader opened, no detector consulted, no language detected yet.
NoReader   == [opened |-> FALSE]
NoDetector == [used |-> FALSE]
NoLanguage == [returned |-> FALSE, raised |-> FALSE]

\* The variables of the analysis functions while none of them runs.
AnaIdle ==
    /\ detector = NoDetector /\ detector_calls = 0 /\ language = NoLanguage
    /\ title = None /\ author = None

\* The variables of the PDF scripts while no PDF script runs.
PdfIdle ==
    /\ script = None /\ alt_text_mode = None /\ ANTHROPIC_AVAILABLE = FALSE
    /\ input_pdf = NoFile /\ xobjects = <<>> /\ analysis = NoAnalysis
    /\ page_texts = <<>> /\ headings_file = NoFile
    /\ saved = FALSE /\ api_log = <<>> /\ exit_code = NoExit
    /\ reader = NoReader
    /\ images = <<>> /\ headings = <<>> /\ output_pdf = NoFile
    /\ report = NoReport

---------------------------------------------------------------------------
(* Characters and Python's str methods *)

\* The character sequence of an ASCII literal.
Str(s) == [i \in 1..Len(s) |-> SubSeq(s, i, i)]

ch_ouml   == "&ouml;"
ch_auml   == "&auml;"
ch_uuml   == "&uuml;"
ch_eacute == "&eacute;"
ch_oacute == "&oacute;"
ch_Ouml   == "&Ouml;"
ch_Auml   == "&Auml;"
ch_Uuml   == "&Uuml;"
ch_Eacute == "&Eacute;"
ch_Oacute == "&Oacute;"
ch_bullet == "&bull;"

UpperSeq == Str("ABCDEFGHIJKLMNOPQRSTUVWXYZ")
              \o <<ch_Ouml, ch_Auml, ch_Uuml, ch_Eacute, ch_Oacute>>
LowerSeq == Str("abcdefghijklmnopqrstuvwxyz")
              \o <<ch_ouml, ch_auml, ch_uuml, ch_eacute, ch_oacute>>

Range(f) == {f[i] : i \in DOMAIN f}

UpperChars == Range(UpperSeq)
LowerChars == Range(LowerSeq)
DigitChars == Range(Str("0123456789"))
SpaceChars == {" ", "\t", "\n", "\r"}

\* \w of a Python 3 str pattern: letters, digits and the underscore.
WordChars == UpperChars \cup LowerChars \cup DigitChars \cup {"_"}

LowerOf == [c \in UpperChars |->
              LowerSeq[CHOOSE i \in 1..Len(UpperSeq) : UpperSeq[i] = c]]

\* str.lower()
Lower(s) == [i \in 1..Len(s) |-> IF s[i] \in UpperChars THEN LowerOf[s[i]] ELSE s[i]]

\* str.isupper(): at least one cased character and no lower-case one.
IsUpper(s) == /\ \E i \in 1..Len(s) : s[i] \in UpperChars
              /\ \A i \in 1..Len(s) : s[i] \notin LowerChars

\* str.isdigit(): non-empty and digits only.
IsDigit(s) == Len(s) > 0 /\ \A i \in 1..Len(s) : s[i] \in DigitChars

\* str.endswith / str.startswith for a one-character argument.
EndsWith(s, c)   == Len(s) > 0 /\ s[Len(s)] = c
StartsWith(s, c) == Len(s) > 0 /\ s[1] = c

\* s[lo-1:hi] of Python, in 1-based positions lo..hi: cut to the string's end,
\* empty when nothing is left.
Slice(s, lo, hi) ==
    LET top == IF hi <= Len(s) THEN hi ELSE Len(s) IN
    IF lo > top THEN <<>> ELSE [i \in 1..(top - lo + 1) |-> s[lo + i - 1]]

\* sub in s
Contains(s, sub) ==
    \E i \in 1..(Len(s) - Len(sub) + 1) : SubSeq(s, i, i + Len(sub) - 1) = sub

RECURSIVE Concat(_)
Concat(ss) == IF ss = <<>> THEN <<>> ELSE Head(ss) \o Concat(Tail(ss))

\* c repeated n times
Rep(c, n) == [i \in 1..n |-> c]

---------------------------------------------------------------------------
(* The regular expressions of DOC_TYPE_PATTERNS.  A pattern is a sequence  *)
(* of atoms: \b, a literal, \s+ or \d+.                                    *)

B     == [k |-> "b"]
SP    == [k |-> "s+"]
DG    == [k |-> "d+"]
L(s)  == [k |-> "lit", s |-> s]
W(s)  == L(Str(s))

\* \b at pos: exactly one of the characters before and at pos is a word character.
IsBoundary(s, pos) ==
    LET before == pos > 1 /\ pos - 1 <= Len(s) /\ s[pos - 1] \in WordChars
        after  == pos >= 1 /\ pos <= Len(s) /\ s[pos] \in WordChars
    IN  before /= after

\* The end of the longest run of characters of class cls that starts at pos.
RECURSIVE RunEnd(_, _, _)
RunEnd(s, pos, cls) ==
    IF pos <= Len(s) /\ s[pos] \in cls THEN RunEnd(s, pos + 1, cls) ELSE pos

\* The position after the match of atoms k.. of pat at pos, 0 when there is none.
\* \s+ and \d+ take their longest run: in every pattern of the table the atom
\* after a run cannot match a character of the run, so giving back never helps.
RECURSIVE MatchAt(_, _, _, _)
MatchAt(pat, k, s, pos) ==
    IF k > Len(pat) THEN pos
    ELSE LET a == pat[k] IN
         CASE a.k = "b"   -> IF IsBoundary(s, pos)
                             THEN MatchAt(pat, k + 1, s, pos) ELSE 0
           [] a.k = "lit" -> IF /\ pos + Len(a.s) - 1 <= Len(s)
                                /\ SubSeq(s, pos, pos + Len(a.s) - 1) = a.s
                             THEN MatchAt(pat, k + 1, s, pos + Len(a.s)) ELSE 0
           [] a.k = "s+"  -> LET e == RunEnd(s, pos, SpaceChars) IN
                             IF e > pos THEN MatchAt(pat, k + 1, s, e) ELSE 0
           [] a.k = "d+"  -> LET e == RunEnd(s, pos, DigitChars) IN
                             IF e > pos THEN MatchAt(pat, k + 1, s, e) ELSE 0

\* re.search(pattern, s): a match at some position.
Search(pat, s) == \E pos \in 1..(Len(s) + 1) : MatchAt(pat, 1, s, pos) /= 0

\* len(re.findall(pattern, s)): the non-overlapping matches, scanning from the
\* left; after a match the scan resumes at its end (one further for an empty match).
RECURSIVE FindallFrom(_, _, _)
FindallFrom(pat, s, from) ==
    LET starts == {pos \in from..(Len(s) + 1) : MatchAt(pat, 1, s, pos) /= 0} IN
    IF starts = {} THEN 0
    ELSE LET pos == CHOOSE p \in starts : \A q \in starts : p <= q
             e   == MatchAt(pat, 1, s, pos)
         IN  1 + FindallFrom(pat, s, IF e = pos THEN pos + 1 ELSE e)

Findall(pat, s) == FindallFrom(pat, s, 1)

\* \bword\b, \bword, and \bword\s+word
BWB(s)  == <<B, W(s), B>>
BW(s)   == <<B, W(s)>>
BLB(cs) == <<B, L(cs), B>>
BL(cs)  == <<B, L(cs)>>

DOC_TYPE_PATTERNS == <<
    [name |-> "lecture", patterns |-> <<
        BWB("lecture"), BWB("slide"), BWB("lesson"),
        <<B, W("chapter"), SP, DG>>,
        BWB("course"), BWB("syllabus"), BWB("semester"),
        BL(Str("f") \o <<ch_ouml>> \o Str("rel") \o <<ch_auml>> \o Str("sning")),
        BW("introduktion"), BWB("intro"), BWB("kurs"),
        BWB("vorlesung"),
        BLB(Str("einf") \o <<ch_uuml>> \o Str("hrung")),
        BWB("cours"),
        BLB(Str("conf") \o <<ch_eacute>> \o Str("rence")),
        BWB("clase"),
        BLB(Str("lecci") \o <<ch_oacute>> \o Str("n")) >>],
    [name |-> "instructions", patterns |-> <<
        BW("instruction"), <<B, W("how"), SP, W("to"), B>>, BWB("guide"),
        BWB("manual"), <<B, W("step"), SP, DG>>, BWB("procedure"),
        BWB("tutorial"),
        BW("instruktion"), BWB("handledning"), BWB("guide"),
        BWB("anleitung"), BWB("handbuch"),
        BWB("manuel"), BWB("guide") >>],
    [name |-> "workshop", patterns |-> <<
        BWB("workshop"), BWB("training"), BWB("exercise"), BW("hands-on"),
        BWB("activity"), BWB("practical"),
        BWB("verkstad"), BL(<<ch_ouml>> \o Str("vning")), BWB("utbildning"),
        BWB("workshop"), BLB(<<ch_uuml>> \o Str("bung")),
        BWB("atelier"), BWB("exercice") >>],
    [name |-> "report", patterns |-> <<
        BWB("report"), BWB("analysis"), BWB("findings"), BWB("summary"),
        BWB("conclusion"), BWB("abstract"),
        BWB("rapport"), BWB("analys"), BWB("sammanfattning"),
        BWB("bericht"), BWB("analyse"),
        BWB("rapport"), BWB("analyse") >>],
    [name |-> "form", patterns |-> <<
        BWB("form"), BWB("application"), <<B, W("fill"), SP, W("out")>>,
        BWB("submit"), BWB("signature"),
        BLB(Str("formul") \o <<ch_auml>> \o Str("r")),
        BLB(Str("ans") \o <<ch_ouml>> \o Str("kan")),
        BWB("formular"), BWB("antrag"),
        BWB("formulaire") >>],
    [name |-> "presentation", patterns |-> <<
        BWB("presentation"), BWB("slideshow"), BWB("overview"), BWB("agenda"),
        BWB("presentation"), BLB(<<ch_ouml>> \o Str("versikt")),
        BLB(Str("pr") \o <<ch_auml>> \o Str("sentation")),
        BLB(<<ch_uuml>> \o Str("bersicht")),
        BLB(Str("pr") \o <<ch_eacute>> \o Str("sentation")) >>],
    [name |-> "article", patterns |-> <<
        BWB("article"), BWB("paper"), BWB("journal"), BWB("publication"),
        BWB("research"),
        BWB("artikel"), BWB("uppsats"), BWB("forskning"),
        BWB("artikel"), BWB("forschung"),
        BWB("article"), BWB("recherche") >>],
    [name |-> "brochure", patterns |-> <<
        BWB("brochure"), BWB("flyer"), BWB("pamphlet"), BWB("promotional"),
        BWB("broschyr"), BWB("flygblad"),
        BLB(Str("brosch") \o <<ch_uuml>> \o Str("re")), BWB("flugblatt"),
        BWB("brochure"), BWB("prospectus") >> ] >>

---------------------------------------------------------------------------
(* classify_document_type *)

\* for pattern in patterns: if re.search(pattern, filename_lower): return doc_type
RECURSIVE FilenamePatternLoop(_, _, _)
FilenamePatternLoop(patterns, j, filename_lower) ==
    IF j > Len(patterns) THEN FALSE
    ELSE IF Search(patterns[j], filename_lower) THEN TRUE
    ELSE FilenamePatternLoop(patterns, j + 1, filename_lower)

\* for doc_type, patterns in DOC_TYPE_PATTERNS.items(): the first doc_type
\* returned by the filename check, None when the loop runs to its end.
RECURSIVE FilenameLoop(_, _)
FilenameLoop(i, filename_lower) ==
    IF i > Len(DOC_TYPE_PATTERNS) THEN None
    ELSE IF FilenamePatternLoop(DOC_TYPE_PATTERNS[i].patterns, 1, filename_lower)
         THEN DOC_TYPE_PATTERNS[i].name
    ELSE FilenameLoop(i + 1, filename_lower)

\* score = 0; for pattern in patterns: score += len(re.findall(pattern, text_lower))
RECURSIVE ScoreLoop(_, _, _, _)
ScoreLoop(patterns, j, text_lower, score) ==
    IF j > Len(patterns) THEN score
    ELSE ScoreLoop(patterns, j + 1, text_lower,
                   score + Findall(patterns[j], text_lower))

\* The scores dict as the sequence of its items in insertion order: a doc_type
\* is inserted only when its score is positive.
RECURSIVE ContentScores(_, _)
ContentScores(i, text_lower) ==
    IF i > Len(DOC_TYPE_PATTERNS) THEN <<>>
    ELSE LET score == ScoreLoop(DOC_TYPE_PATTERNS[i].patterns, 1, text_lower, 0)
         IN  (IF score > 0
              THEN <<[name |-> DOC_TYPE_PATTERNS[i].name, score |-> score]>>
              ELSE <<>>) \o ContentScores(i + 1, text_lower)

\* max(scores, key=scores.get): the keys are visited in insertion order and a
\* later key replaces the best one only when its value is strictly greater.
\* (mutant) a later key replaces the best one also when its value is equal.
RECURSIVE MaxByScore_LastWins(_, _, _)
MaxByScore_LastWins(scores, k, best) ==
    IF k > Len(scores) THEN best.name
    ELSE MaxByScore_LastWins(scores, k + 1,
                    IF scores[k].score >= best.score THEN scores[k] ELSE best)

\* (mutant) equal values are settled one way in the first call of a process
\* and the other way in a later one.
RECURSIVE MaxByScore_Unstable(_, _, _)
MaxByScore_Unstable(scores, k, best) ==
    IF k > Len(scores) THEN best.name
    ELSE MaxByScore_Unstable(scores, k + 1,
             IF \/ scores[k].score > best.score
                \/ doc_type /= None /\ scores[k].score = best.score
             THEN scores[k] ELSE best)

RECURSIVE MaxByScore(_, _, _)
MaxByScore(scores, k, best) ==
    IF k > Len(scores) THEN best.name
    ELSE MaxByScore(scores, k + 1,
                    IF scores[k].score > best.score THEN scores[k] ELSE best)

\* (mutant) the content is scored before the file name is looked at.
classify_ContentFirst(t, f) ==
    LET by_filename == FilenameLoop(1, Lower(f))
        scores      == ContentScores(1, Lower(t))
    IN  IF scores /= <<>> THEN MaxByScore(scores, 2, scores[1])
        ELSE IF by_filename /= None THEN by_filename
        ELSE "document"

\* (mutant) no default: the empty scores dict falls through and None is returned.
classify_NoDefault(t, f) ==
    LET by_filename == FilenameLoop(1, Lower(f))
        scores      == ContentScores(1, Lower(t))
    IN  IF by_filename /= None THEN by_filename
        ELSE IF scores /= <<>> THEN MaxByScore(scores, 2, scores[1])
        ELSE None

classify_document_type(t, f) ==
    LET text_lower     == Lower(t)
        filename_lower == Lower(f)
        by_filename    == FilenameLoop(1, filename_lower)
        scores         == ContentScores(1, text_lower)
    IN  IF by_filename /= None THEN by_filename
        ELSE IF scores /= <<>> THEN MaxByScore(scores, 2, scores[1])
        ELSE "document"

---------------------------------------------------------------------------
(* Inputs of the classifier: texts and file names made of a few tokens. *)

MaxTextTokens == 3

TextTokens == << Str("guide "), Str("Rapport "), Str("lecture "), Str("_"),
                 Str("chapter 12 ") >>

FilenameStems == { Str("Lecture_01_Introduction"), Str("lecture 01"),
                   Str("notes"), Str("report-guide"), Str("My Guide to Lecture"),
                   Str("reports_final"), Str("step 3 form") }

TokenSeqs(tokens, n) == UNION {[1..m -> 1..Len(tokens)] : m \in 0..n}

Texts == {Concat([i \in DOMAIN ts |-> TextTokens[ts[i]]]) :
              ts \in TokenSeqs(TextTokens, MaxTextTokens)}

Filenames == {stem \o Str(".pdf") : stem \in FilenameStems}

ClassifyInit ==
    /\ pc = "classify"
    /\ text \in Texts
    /\ filename \in Filenames
    /\ doc_type = None /\ doc_type_again = None
    /\ line = <<>> /\ is_heading = None /\ level = 0 /\ text_blocks = <<>>
    /\ PdfIdle /\ AnaIdle

\* analyze_pdf: doc_type = classify_document_type(text, path.name)
Classify ==
    /\ pc = "classify"
    /\ doc_type' = classify_document_type(text, filename)
    /\ pc' = "classified"
    /\ UNCHANGED <<text, filename, doc_type_again, headVars, anaVars, pdfVars>>

\* A second call of classify_document_type with the same arguments
ClassifyAgain ==
    /\ pc = "classified"
    /\ doc_type_again' = classify_document_type(text, filename)
    /\ pc' = "classified again"
    /\ UNCHANGED <<text, filename, doc_type, headVars, anaVars, pdfVars>>

ClassifyNext == Classify \/ ClassifyAgain

SpecClassify == ClassifyInit /\ [][ClassifyNext]_vars

---------------------------------------------------------------------------
(* add_heading_tags.py: detect_heading_heuristic and estimate_heading_level *)

\* The positions where a word of s.split() starts.
WordStarts(s) ==
    {i \in 1..Len(s) : s[i] \notin SpaceChars /\ (i = 1 \/ s[i - 1] \in SpaceChars)}

heading_keywords == <<
    Str("introduction"), Str("background"), Str("method"), Str("result"),
    Str("discussion"), Str("conclusion"), Str("summary"), Str("overview"),
    Str("chapter"), Str("section"),
    Str("f") \o <<ch_ouml>> \o Str("rel") \o <<ch_auml>> \o Str("sning"),
    Str("introduktion"), Str("bakgrund"), Str("metod"), Str("resultat"),
    Str("diskussion"), Str("sammanfattning"),
    <<ch_ouml>> \o Str("versikt"), Str("kapitel") >>

\* (mutant) the all-caps trigger is tried before the two rejections.
detect_heading_CapsFirst(t) ==
    IF IsUpper(t) /\ Len(t) > 3 THEN TRUE
    ELSE IF Len(t) > 100 THEN FALSE
    ELSE IF EndsWith(t, ".") \/ EndsWith(t, ",") THEN FALSE
    ELSE LET words == WordStarts(t)
             capitalized == Cardinality({i \in words : t[i] \in UpperChars})
         IN  IF Cardinality(words) > 1 /\ 5 * capitalized > 3 * Cardinality(words)
             THEN TRUE
             ELSE IF Len(t) > 0 /\ (t[1] \in DigitChars \/ StartsWith(t, ch_bullet)
                                                    \/ StartsWith(t, "-"))
             THEN TRUE
             ELSE \E k \in DOMAIN heading_keywords :
                      Contains(Lower(t), heading_keywords[k])

\* (mutant) three capitalized words of five are enough.
detect_heading_AtLeast60(t) ==
    IF Len(t) > 100 THEN FALSE
    ELSE IF EndsWith(t, ".") \/ EndsWith(t, ",") THEN FALSE
    ELSE IF IsUpper(t) /\ Len(t) > 3 THEN TRUE
    ELSE LET words == WordStarts(t)
             capitalized == Cardinality({i \in words : t[i] \in UpperChars})
         IN  IF Cardinality(words) > 1 /\ 5 * capitalized >= 3 * Cardinality(words)
             THEN TRUE
             ELSE IF Len(t) > 0 /\ (t[1] \in DigitChars \/ StartsWith(t, ch_bullet)
                                                    \/ StartsWith(t, "-"))
             THEN TRUE
             ELSE \E k \in DOMAIN heading_keywords :
                      Contains(Lower(t), heading_keywords[k])

\* capitalized / len(words) > 0.6 is compared exactly: 5 * capitalized > 3 * len(words)
\* (the quotient 3/5 rounds to the same double as the literal 0.6).
detect_heading_heuristic(t) ==
    IF Len(t) > 100 THEN FALSE
    ELSE IF EndsWith(t, ".") \/ EndsWith(t, ",") THEN FALSE
    ELSE IF IsUpper(t) /\ Len(t) > 3 THEN TRUE
    ELSE LET words == WordStarts(t)
             capitalized == Cardinality({i \in words : t[i] \in UpperChars})
         IN  IF Cardinality(words) > 1 /\ 5 * capitalized > 3 * Cardinality(words)
             THEN TRUE
             ELSE IF Len(t) > 0 /\ (t[1] \in DigitChars \/ StartsWith(t, ch_bullet)
                                                    \/ StartsWith(t, "-"))
             THEN TRUE
             ELSE \E k \in DOMAIN heading_keywords :
                      Contains(Lower(t), heading_keywords[k])

\* (mutant) the default level grows with the length of the line without a cap.
estimate_heading_level_ByLength(ln) ==
    IF Len(ln) < 30 /\ IsUpper(ln) THEN 1
    ELSE IF Len(ln) > 0 /\ ln[1] \in DigitChars /\ ~IsDigit(Slice(ln, 2, 2)) THEN 2
    ELSE IF Len(ln) > 2 /\ ln[1] \in DigitChars /\ ln[2] \in {".", ")", ":"} THEN 3
    ELSE 2 + (Len(ln) \div 20)

\* (mutant) the numbering is looked at before the capitals.
estimate_heading_level_DigitFirst(ln) ==
    IF Len(ln) > 0 /\ ln[1] \in DigitChars /\ ~IsDigit(Slice(ln, 2, 2)) THEN 2
    ELSE IF Len(ln) < 30 /\ IsUpper(ln) THEN 1
    ELSE IF Len(ln) > 2 /\ ln[1] \in DigitChars /\ ln[2] \in {".", ")", ":"} THEN 3
    ELSE IF Len(ln) < 20 THEN 2
    ELSE IF Len(ln) < 40 THEN 3
    ELSE 4

\* (mutant) the first length bucket ends at 30 characters.
estimate_heading_level_Bucket30(ln) ==
    IF Len(ln) < 30 /\ IsUpper(ln) THEN 1
    ELSE IF Len(ln) > 0 /\ ln[1] \in DigitChars /\ ~IsDigit(Slice(ln, 2, 2)) THEN 2
    ELSE IF Len(ln) > 2 /\ ln[1] \in DigitChars /\ ln[2] \in {".", ")", ":"} THEN 3
    ELSE IF Len(ln) < 30 THEN 2
    ELSE IF Len(ln) < 40 THEN 3
    ELSE 4

\* line[1:2] is the second character, or '' when there is none.
estimate_heading_level(ln) ==
    IF Len(ln) < 30 /\ IsUpper(ln) THEN 1
    ELSE IF Len(ln) > 0 /\ ln[1] \in DigitChars /\ ~IsDigit(Slice(ln, 2, 2)) THEN 2
    ELSE IF Len(ln) > 2 /\ ln[1] \in DigitChars /\ ln[2] \in {".", ")", ":"} THEN 3
    ELSE IF Len(ln) < 20 THEN 2
    ELSE IF Len(ln) < 40 THEN 3
    ELSE 4

(* Inputs of the heading heuristic: a few tokens, then a run of one repeated *)
(* letter that brings the line near a length threshold, then an ending.     *)

MaxLineTokens == 2

LineTokens == << Str("1"), Str("."), Str(")"), Str(" "), Str("Ab"), Str("cd"),
                 Str("-"), <<ch_bullet>>, Str("method") >>

PadLens  == {0, 15, 36, 98}
PadChars == {"x", "X"}
Endings  == {<<>>, Str("."), Str(",")}

ScenarioLines == {Str("INTRODUCTION"), Str("1.1 Background Methods"),
                  Str("Ab Ab Ab cd cd"), Str("Ab Ab cd"), Str("Ab cd"),
                  Str("12 "), Str("12:cd"), Str("3) cd")}

\* Lines of one repeated letter at the lengths the two functions compare with
BoundaryLens == {3, 4, 19, 20, 29, 30, 39, 40}

BoundaryLines == {Rep(c, n) \o e : c \in PadChars, n \in BoundaryLens, e \in Endings}

Lines ==
    ScenarioLines \cup BoundaryLines \cup
    {Concat([i \in DOMAIN ts |-> LineTokens[ts[i]]]) \o Rep(c, n) \o e :
        ts \in TokenSeqs(LineTokens, MaxLineTokens),
        c \in PadChars, n \in PadLens, e \in Endings}

HeadingInit ==
    /\ pc = "line"
    /\ line \in Lines
    /\ is_heading = None /\ level = 0 /\ text_blocks = <<>>
    /\ text = <<>> /\ filename = <<>> /\ doc_type = None /\ doc_type_again = None
    /\ PdfIdle /\ AnaIdle

\* extract_text_with_fonts, lines 68-69: both functions are applied to the line.
HeadingBlock ==
    /\ pc = "line"
    /\ is_heading' = detect_heading_heuristic(line)
    /\ level' = estimate_heading_level(line)
    /\ pc' = "block"
    /\ UNCHANGED <<line, text_blocks, clsVars, anaVars, pdfVars>>

HeadingNext == HeadingBlock

SpecHeading == HeadingInit /\ [][HeadingNext]_vars

---------------------------------------------------------------------------
(* PDF objects as pikepdf shows them: a dictionary is a function whose     *)
(* domain is the set of the keys it holds, an array is a sequence, a name  *)
(* or a string is a string.  The /P entry of a structure element (the      *)
(* reference back to its parent) is left out.                              *)

Has(d, k)          == k \in DOMAIN d                          \* '/k' in d
Put(d, k, v)       == (k :> v) @@ d                           \* d.k = v
Get(d, k, default) == IF k \in DOMAIN d THEN d[k] ELSE default  \* d.get('/k', default)

\* The truth value of a str-or-None.
Truthy(x) == x \notin {None, ""}

\* The string of a character sequence.
RECURSIVE Unstr(_)
Unstr(cs) == IF cs = <<>> THEN "" ELSE Head(cs) \o Unstr(Tail(cs))

\* str.strip()
Strip(cs) ==
    LET keep == {i \in 1..Len(cs) : cs[i] \notin SpaceChars} IN
    IF keep = {} THEN <<>>
    ELSE LET lo == CHOOSE i \in keep : \A j \in keep : i <= j
             hi == CHOOSE i \in keep : \A j \in keep : j <= i
         IN  Slice(cs, lo, hi)

\* [f(x) for x in xs]
MapSeq(f(_), xs) == [i \in DOMAIN xs |-> f(xs[i])]

NewStructTreeRoot ==
    [Type |-> "/StructTreeRoot", K |-> <<>>, ParentTree |-> [Nums |-> <<>>],
     RoleMap |-> <<>>]

NewDocumentElem == [Type |-> "/StructElem", S |-> "/Document", K |-> <<>>]

FigureElem(img) ==
    [Type |-> "/StructElem", S |-> "/Figure", Alt |-> img.alt_text, K |-> <<>>]

\* if '/k' not in d: d.k = v
PutIfMissing(d, k, v) == IF Has(d, k) THEN d ELSE Put(d, k, v)

\* (mutant) document_elem.K = Array(elems): the children are replaced
AppendToDocument_Replace(struct_tree_root, elems) ==
    IF elems = <<>> THEN struct_tree_root
    ELSE Put(struct_tree_root, "K",
             <<Put(struct_tree_root.K[1], "K", elems)>> \o Tail(struct_tree_root.K))

\* The tree with the elements elems appended to the children of the first
\* element of StructTreeRoot.K (document_elem.K.append, after
\* "if '/K' not in document_elem: document_elem.K = Array([])").
AppendToDocument(struct_tree_root, elems) ==
    LET document_elem == struct_tree_root.K[1]
        with_k        == PutIfMissing(document_elem, "K", <<>>)
    IN  IF elems = <<>> THEN struct_tree_root
        ELSE Put(struct_tree_root, "K",
                 <<Put(with_k, "K", with_k.K \o elems)>> \o Tail(struct_tree_root.K))

\* "Create or get structure tree root" and "Create document element if needed"
GetOrCreateTree(Root) ==
    LET root1 == PutIfMissing(Root, "StructTreeRoot", NewStructTreeRoot)
        tree  == root1.StructTreeRoot
    IN  IF tree.K = <<>>
        THEN Put(root1, "StructTreeRoot", Put(tree, "K", <<NewDocumentElem>>))
        ELSE root1

\* add_alt_text_to_images.py: the catalog after create_structure_tree_with_images
create_structure_tree_with_images(Root, imgs) ==
    LET root1   == GetOrCreateTree(Root)
        figures == MapSeq(FigureElem, SelectSeq(imgs, LAMBDA img : Truthy(img.alt_text)))
    IN  Put(root1, "StructTreeRoot", AppendToDocument(root1.StructTreeRoot, figures))

\* (mutant) pdf.Root.ViewerPreferences = Dictionary(DisplayDocTitle=True)
SetAccessibilityFlags_NewPreferences(Root) ==
    Put(Put(Root, "MarkInfo", [Marked |-> TRUE]),
        "ViewerPreferences", [DisplayDocTitle |-> TRUE])

\* "Set accessibility flags" of add_alt_text_to_pdf and enhance_pdf_accessibility
SetAccessibilityFlags(Root) ==
    LET root1 == Put(Root, "MarkInfo", [Marked |-> TRUE])
        root2 == PutIfMissing(root1, "ViewerPreferences", <<>>)
    IN  Put(root2, "ViewerPreferences",
            Put(root2.ViewerPreferences, "DisplayDocTitle", TRUE))

\* if metadata.get(key): d[entry] = String(metadata[key])
PutIfTruthy(d, entry, metadata, key) ==
    IF Truthy(Get(metadata, key, None)) THEN Put(d, entry, metadata[key]) ELSE d

\* add_alt_text_to_pdf: the PDF that is saved at the output path
add_alt_text_to_pdf(pdf, imgs, metadata) ==
    LET root1 == create_structure_tree_with_images(pdf.Root, imgs)
        root2 == SetAccessibilityFlags(root1)
        info1 == PutIfTruthy(pdf.docinfo, "Title", metadata, "title")
        info2 == PutIfTruthy(info1, "Author", metadata, "author")
        root3 == PutIfTruthy(root2, "Lang", metadata, "language")
    IN  [exists |-> TRUE, Root |-> root3, docinfo |-> info2]

\* enhance_pdf_accessibility: the PDF that is saved at the output path.  The
\* XMP stream it also writes is not part of the modelled state.
enhance_pdf_accessibility(pdf, metadata) ==
    LET root1 == PutIfMissing(pdf.Root, "StructTreeRoot",
                     Put(NewStructTreeRoot, "K", <<NewDocumentElem>>))
        root2 == SetAccessibilityFlags(root1)
        root3 == PutIfTruthy(root2, "Lang", metadata, "language")
        info1 == PutIfTruthy(pdf.docinfo, "Title", metadata, "title")
        info2 == PutIfTruthy(info1, "Author", metadata, "author")
        info3 == PutIfTruthy(info2, "Subject", metadata, "subject")
        info4 == PutIfTruthy(info3, "Keywords", metadata, "keywords")
    IN  [exists |-> TRUE, Root |-> root3, docinfo |-> info4]

---------------------------------------------------------------------------
(* add_alt_text_to_images.py: the image list and the three ways to fill it *)

\* extract_images_from_pdf: image_counter counts every image XObject, and an
\* image whose data cannot be extracted is counted but not listed.
RECURSIVE ExtractLoop(_, _, _)
ExtractLoop(xs, k, image_counter) ==
    IF k > Len(xs) THEN <<>>
    ELSE IF xs[k].Subtype /= "/Image" THEN ExtractLoop(xs, k + 1, image_counter)
    ELSE (IF xs[k].decodable
          THEN <<[id |-> image_counter + 1, page |-> xs[k].page, alt_text |-> None]>>
          ELSE <<>>) \o ExtractLoop(xs, k + 1, image_counter + 1)

extract_images_from_pdf(xs) == ExtractLoop(xs, 1, 0)

\* generate_alt_text_with_claude, given what the API call does: it raises
\* ("error") or returns the text of the message, which is stripped.
generate_alt_text_with_claude(available, api) ==
    IF ~available THEN None
    ELSE IF api = "error" THEN None
    ELSE Unstr(Strip(Str(api)))

\* (mutant) the first failing API call ends the loop: the images after it are
\* left as they were extracted.
add_alt_text_auto_Abort(imgs, available, api) ==
    IF ~available THEN imgs
    ELSE [i \in DOMAIN imgs |->
            IF \E j \in 1..(i - 1) : api[j] = "error" THEN imgs[i]
            ELSE LET alt_text == generate_alt_text_with_claude(available, api[i])
                 IN  [imgs[i] EXCEPT !.alt_text =
                         IF Truthy(alt_text) THEN alt_text ELSE ""]]

\* add_alt_text_auto: api[i] is what the API call for image i does
add_alt_text_auto(imgs, available, api) ==
    IF ~available THEN imgs
    ELSE [i \in DOMAIN imgs |->
            LET alt_text == generate_alt_text_with_claude(available, api[i])
            IN  [imgs[i] EXCEPT !.alt_text = IF Truthy(alt_text) THEN alt_text ELSE ""]]

\* add_alt_text_interactive: typed[i] is the line the user types for image i
add_alt_text_interactive(imgs, typed) ==
    [i \in DOMAIN imgs |->
        LET alt_text == Strip(Str(typed[i]))
        IN  [imgs[i] EXCEPT !.alt_text =
                IF Lower(alt_text) = Str("skip") THEN "" ELSE Unstr(alt_text)]]

\* add_alt_text_from_file: alt_texts is the loaded JSON object
add_alt_text_from_file(imgs, alt_texts) ==
    [i \in DOMAIN imgs |->
        [imgs[i] EXCEPT !.alt_text =
            IF Has(alt_texts, ToString(imgs[i].id))
            THEN alt_texts[ToString(imgs[i].id)] ELSE ""]]

---------------------------------------------------------------------------
(* complete_accessibility_workflow.py: run_complete_workflow *)

\* The metadata dict built from the analysis (lines 95-101 and 113-119).
MetadataOf(a) ==
    [title    |-> a.suggested_title,
     author   |-> IF Truthy(a.suggested_author) THEN a.suggested_author ELSE "",
     subject  |-> a.suggested_subject,
     keywords |-> a.suggested_keywords,
     language |-> a.primary_language]

\* sum(1 for elem in doc_elem.K if hasattr(elem, 'S') and elem.S == '/Figure')
CountFigures(elems) ==
    Cardinality({i \in DOMAIN elems : Has(elems[i], "S") /\ elems[i].S = "/Figure"})

\* The number the verification prints as "Figure elements with alt text",
\* -1 when it prints none.
FigureCount(Root) ==
    IF /\ Has(Root, "StructTreeRoot")
       /\ Has(Root.StructTreeRoot, "K")
       /\ Len(Root.StructTreeRoot.K) > 0
       /\ Has(Root.StructTreeRoot.K[1], "K")
    THEN CountFigures(Root.StructTreeRoot.K[1].K)
    ELSE -1

\* The checks dict of the verification (lines 131-138).
WorkflowChecks(pdf) ==
    [StructTreeRoot  |-> Has(pdf.Root, "StructTreeRoot"),
     Marked          |-> Get(Get(pdf.Root, "MarkInfo", <<>>), "Marked", FALSE),
     DisplayDocTitle |-> Get(Get(pdf.Root, "ViewerPreferences", <<>>),
                             "DisplayDocTitle", FALSE),
     Language        |-> Has(pdf.Root, "Lang"),
     Title           |-> Has(pdf.docinfo, "Title"),
     Author          |-> Has(pdf.docinfo, "Author")]

(* Inputs *)

MaxXObjects == 2

XObjectKinds == { [Subtype |-> "/Image", decodable |-> TRUE],
                  [Subtype |-> "/Image", decodable |-> FALSE],
                  [Subtype |-> "/Form",  decodable |-> FALSE] }

\* One XObject per page, on pages 1, 2, ...
XObjectLists ==
    UNION {{[k \in 1..n |-> Put(f[k], "page", k)] : f \in [1..n -> XObjectKinds]} :
              n \in 0..MaxXObjects}

OldFigure  == [Type |-> "/StructElem", S |-> "/Figure", Alt |-> "old figure", K |-> <<>>]
OldHeading == [Type |-> "/StructElem", S |-> "/H1", T |-> "old heading", K |-> <<>>]
OldSect    == [Type |-> "/StructElem", S |-> "/Sect"]

\* The PDFs at the input path: untagged, tagged with an empty tree, with an
\* empty Document element, with a Document element that has children, and
\* with a first element that has no /K.
InputPdfs == {
    [exists |-> TRUE, Root |-> [Type |-> "/Catalog"], docinfo |-> [Producer |-> "p"]],
    [exists |-> TRUE,
     Root |-> [Type |-> "/Catalog", StructTreeRoot |-> NewStructTreeRoot,
               MarkInfo |-> [Marked |-> FALSE],
               ViewerPreferences |-> [HideToolbar |-> TRUE]],
     docinfo |-> [Producer |-> "p", Author |-> "Old Author"]],
    [exists |-> TRUE,
     Root |-> [Type |-> "/Catalog",
               StructTreeRoot |-> Put(NewStructTreeRoot, "K", <<NewDocumentElem>>),
               Lang |-> "sv"],
     docinfo |-> [Producer |-> "p", Title |-> "Old Title"]],
    [exists |-> TRUE,
     Root |-> [Type |-> "/Catalog",
               StructTreeRoot |-> Put(NewStructTreeRoot, "K",
                   <<Put(NewDocumentElem, "K", <<OldHeading, OldFigure>>), OldSect>>),
               MarkInfo |-> [Marked |-> TRUE, Suspects |-> FALSE],
               ViewerPreferences |-> [DisplayDocTitle |-> FALSE, HideToolbar |-> TRUE]],
     docinfo |-> [Producer |-> "p"]],
    [exists |-> TRUE,
     Root |-> [Type |-> "/Catalog",
               StructTreeRoot |-> Put(NewStructTreeRoot, "K", <<OldSect>>)],
     docinfo |-> [Producer |-> "p"]] }

Analyses ==
    { [made |-> TRUE, suggested_title |-> "Title", suggested_author |-> a,
       suggested_subject |-> "Document - document, text-document, brief",
       suggested_keywords |-> "document, text-document, brief",
       primary_language |-> "en"] : a \in {"", "A. Author"} }

\* What one call of the description API does: it raises, or returns a text.
ApiOutcomes == {"error", " A chart of sales. ", "  "}

\* What the user types at one prompt.
TypedLines == {" Skip", "a photo ", ""}

\* The JSON objects an alt-text file may hold.
AltTextFiles == { <<>>, ("1" :> "first image"),
                  ("1" :> "") @@ ("2" :> "second image") }

AltTextModes == {"auto", "interactive", "file", "skip"}

\* A PDF that an earlier run left at the output path.
EarlierOutput ==
    [exists |-> TRUE,
     Root |-> [Type |-> "/Catalog",
               StructTreeRoot |-> Put(NewStructTreeRoot, "K", <<NewDocumentElem>>),
               MarkInfo |-> [Marked |-> TRUE],
               ViewerPreferences |-> [DisplayDocTitle |-> TRUE],
               Lang |-> "en"],
     docinfo |-> [Producer |-> "p", Title |-> "Earlier Title",
                  Author |-> "Earlier Author"]]

Init ==
    /\ pc = "main"
    /\ script = "complete_accessibility_workflow"
    /\ alt_text_mode \in AltTextModes
    /\ ANTHROPIC_AVAILABLE \in (IF alt_text_mode = "auto" THEN BOOLEAN ELSE {FALSE})
    /\ input_pdf \in InputPdfs \cup {NoFile}
    /\ xobjects \in (IF input_pdf = NoFile THEN {<<>>} ELSE XObjectLists)
    /\ page_texts = <<>> /\ headings_file = NoFile
    /\ analysis = NoAnalysis
    /\ images = <<>> /\ headings = <<>>
    /\ output_pdf \in {NoFile, EarlierOutput}
    /\ report = NoReport
    /\ saved = FALSE /\ api_log = <<>> /\ exit_code = NoExit
    /\ reader = NoReader /\ AnaIdle
    /\ text = <<>> /\ filename = <<>> /\ doc_type = None /\ doc_type_again = None
    /\ line = <<>> /\ is_heading = None /\ level = 0 /\ text_blocks = <<>>

\* main of each script: "if not Path(args.pdf_path).exists(): sys.exit(1)"
CheckInputFile ==
    /\ pc = "main"
    /\ IF input_pdf = NoFile
       THEN pc' = "exited" /\ exit_code' = Exited(1)
       ELSE /\ pc' = IF script = "add_heading_tags" THEN "headings" ELSE "start"
            /\ exit_code' = exit_code
    /\ UNCHANGED <<clsVars, headVars, anaVars, argVars, analysis, images, headings, output_pdf,
                   report, saved, api_log>>

\* Step 1: analysis = analyze_pdf(input_pdf)
AnalyzePdf ==
    /\ pc = "start"
    /\ analysis' \in Analyses
    /\ pc' = "step2"
    /\ UNCHANGED <<clsVars, headVars, anaVars, argVars, images, headings, output_pdf, report,
                   runVars>>

\* Step 2, lines 80-83: images = extract_images_from_pdf(input_pdf); nothing
\* more is done in step 2 when the list is empty.
ExtractImages ==
    /\ pc = "step2"
    /\ alt_text_mode /= "skip"
    /\ images' = extract_images_from_pdf(xobjects)
    /\ pc' = IF images' = <<>> THEN "step3" ELSE "alt_text"
    /\ UNCHANGED <<clsVars, headVars, anaVars, argVars, analysis, headings, output_pdf, report,
                   runVars>>

\* lines 85-86
AddAltTextAuto ==
    /\ pc = "alt_text"
    /\ alt_text_mode = "auto"
    /\ \E api \in [DOMAIN images -> ApiOutcomes] :
           /\ images' = add_alt_text_auto(images, ANTHROPIC_AVAILABLE, api)
           /\ api_log' = IF ANTHROPIC_AVAILABLE THEN api ELSE <<>>
    /\ pc' = "create"
    /\ UNCHANGED <<clsVars, headVars, anaVars, argVars, analysis, headings, output_pdf, report,
                   saved, exit_code>>

\* lines 87-88
AddAltTextInteractive ==
    /\ pc = "alt_text"
    /\ alt_text_mode = "interactive"
    /\ \E typed \in [DOMAIN images -> TypedLines] :
           images' = add_alt_text_interactive(images, typed)
    /\ pc' = "create"
    /\ UNCHANGED <<clsVars, headVars, anaVars, argVars, analysis, headings, output_pdf, report,
                   runVars>>

\* lines 89-90: the file is opened and parsed, which raises when there is no
\* such file or it holds no JSON; the uncaught exception ends the process
\* with status 1.
AddAltTextFromFile ==
    /\ pc = "alt_text"
    /\ alt_text_mode = "file"
    /\ \/ \E alt_texts \in AltTextFiles :
            /\ images' = add_alt_text_from_file(images, alt_texts)
            /\ pc' = "create"
            /\ exit_code' = exit_code
       \/ /\ images' = images
          /\ pc' = "failed"
          /\ exit_code' = Exited(1)
    /\ UNCHANGED <<clsVars, headVars, anaVars, argVars, analysis, headings, output_pdf, report,
                   saved, api_log>>

\* lines 95-103: add_alt_text_to_pdf(input_pdf, output_pdf, images, metadata)
CreatePdfWithAltText ==
    /\ pc = "create"
    /\ output_pdf' = add_alt_text_to_pdf(input_pdf, images, MetadataOf(analysis))
    /\ saved' = TRUE
    /\ pc' = "step3"
    /\ UNCHANGED <<clsVars, headVars, anaVars, argVars, analysis, images, headings, report,
                   api_log, exit_code>>

\* lines 105-121: enhance_pdf_accessibility(input_pdf, output_pdf, metadata)
SkipImages ==
    /\ pc = "step2"
    /\ alt_text_mode = "skip"
    /\ output_pdf' = enhance_pdf_accessibility(input_pdf, MetadataOf(analysis))
    /\ saved' = TRUE
    /\ pc' = "step3"
    /\ UNCHANGED <<clsVars, headVars, anaVars, argVars, analysis, images, headings, report,
                   api_log, exit_code>>

\* Step 3, lines 128-169: pikepdf.open(output_pdf) raises when there is no
\* file at the output path, and the uncaught exception ends the process with
\* status 1; otherwise the checks are made on the file that is there and the
\* figures counted.
Verification ==
    /\ pc = "step3"
    /\ \/ /\ output_pdf = NoFile
          /\ pc' = "failed"
          /\ report' = report
          /\ exit_code' = Exited(1)
       \/ /\ output_pdf /= NoFile
          /\ report' = [made |-> TRUE,
                        checks |-> WorkflowChecks(output_pdf),
                        figure_count |-> FigureCount(output_pdf.Root)]
          /\ pc' = "done"
          /\ exit_code' = exit_code
    /\ UNCHANGED <<clsVars, headVars, anaVars, argVars, analysis, images, headings, output_pdf,
                   saved, api_log>>

\* all(checks.values())
AllChecks(checks) == \A k \in DOMAIN checks : checks[k]

\* main: sys.exit(0 if success else 1) in the two combined workflows;
\* add_heading_tags.py returns from main, which is status 0.
ExitWithStatus ==
    /\ pc = "done"
    /\ exit_code' = Exited(IF script = "add_heading_tags" \/ AllChecks(report.checks)
                           THEN 0 ELSE 1)
    /\ pc' = "exited"
    /\ UNCHANGED <<clsVars, headVars, anaVars, argVars, analysis, images, headings, output_pdf,
                   report, saved, api_log>>

Next ==
    \/ CheckInputFile
    \/ AnalyzePdf
    \/ ExtractImages
    \/ AddAltTextAuto
    \/ AddAltTextInteractive
    \/ AddAltTextFromFile
    \/ CreatePdfWithAltText
    \/ SkipImages
    \/ Verification
    \/ ExitWithStatus

Spec == Init /\ [][Next]_vars

---------------------------------------------------------------------------
(* add_heading_tags.py and complete_accessibility_with_headings.py *)

\* str.split('\n')
RECURSIVE SplitLines(_)
SplitLines(cs) ==
    LET nl == {i \in 1..Len(cs) : cs[i] = "\n"} IN
    IF nl = {} THEN <<cs>>
    ELSE LET p == CHOOSE i \in nl : \A j \in nl : i <= j
         IN  <<Slice(cs, 1, p - 1)>> \o SplitLines(Slice(cs, p + 1, Len(cs)))

\* "\n".join(lines)
RECURSIVE JoinLines(_)
JoinLines(lines) ==
    IF lines = <<>> THEN <<>>
    ELSE IF Len(lines) = 1 THEN lines[1]
    ELSE lines[1] \o <<"\n">> \o JoinLines(Tail(lines))

\* A page of the reader: extract_text returns its text, or raises.
Page(t)     == [raises |-> FALSE, text |-> t]
FailingPage == [raises |-> TRUE, text |-> <<>>]

\* (mutant) the lines are kept as they were split
BlocksOfPage_Untrimmed(page, page_num, block_id) ==
    LET kept == SelectSeq(SplitLines(page.text), LAMBDA ln : Strip(ln) /= <<>>)
    IN  IF page.raises THEN <<>>
        ELSE
        [i \in DOMAIN kept |->
            [id         |-> block_id + i,
             page       |-> page_num,
             text       |-> kept[i],
             is_heading |-> detect_heading_heuristic(kept[i]),
             level      |-> estimate_heading_level(kept[i]),
             char_count |-> Len(kept[i]),
             word_count |-> Cardinality(WordStarts(kept[i]))]]

\* extract_text_with_fonts: the blocks of one page; block_id is the number of
\* blocks made so far.  A page whose extract_text raises is passed over with
\* a warning, and so is a page whose text is blank.
BlocksOfPage(page, page_num, block_id) ==
    LET stripped == MapSeq(Strip, SplitLines(page.text))
        kept     == SelectSeq(stripped, LAMBDA ln : ln /= <<>>)
    IN  IF page.raises \/ Strip(page.text) = <<>> THEN <<>>
        ELSE
        [i \in DOMAIN kept |->
            [id         |-> block_id + i,
             page       |-> page_num,
             text       |-> kept[i],
             is_heading |-> detect_heading_heuristic(kept[i]),
             level      |-> estimate_heading_level(kept[i]),
             char_count |-> Len(kept[i]),
             word_count |-> Cardinality(WordStarts(kept[i]))]]

RECURSIVE TextBlocksLoop(_, _, _)
TextBlocksLoop(pages, page_num, block_id) ==
    IF page_num > Len(pages) THEN <<>>
    ELSE LET blocks == BlocksOfPage(pages[page_num], page_num, block_id)
         IN  blocks \o TextBlocksLoop(pages, page_num + 1, block_id + Len(blocks))

extract_text_with_fonts(pages) == TextBlocksLoop(pages, 1, 0)

identify_headings(blocks) ==
    MapSeq(LAMBDA block : [page |-> block.page, text |-> block.text,
                           level |-> block.level, block_id |-> block.id],
           SelectSeq(blocks, LAMBDA block : block.is_heading))

\* str(n) of an integer, as the JSON encoder writes it
IntChars(n) == Str(ToString(n))

\* int(digits) of the JSON decoder, for digits with an optional minus sign
RECURSIVE DigitsValue(_)
DigitsValue(ds) ==
    IF ds = <<>> THEN 0
    ELSE 10 * DigitsValue(Slice(ds, 1, Len(ds) - 1))
         + (CHOOSE d \in 0..9 : ToString(d) = ds[Len(ds)])

IntValue(cs) ==
    IF cs[1] = "-" THEN 0 - DigitsValue(Tail(cs)) ELSE DigitsValue(cs)

\* The JSON string of a text (ensure_ascii=False): a quote, a backslash, a
\* newline, a carriage return and a tab are written with a backslash; every
\* other character of the alphabet is written as it is.
JsonEscape(c) ==
    CASE c = "\"" -> <<"\\", "\"">>
      [] c = "\\" -> <<"\\", "\\">>
      [] c = "\n" -> <<"\\", "n">>
      [] c = "\r" -> <<"\\", "r">>
      [] c = "\t" -> <<"\\", "t">>
      [] OTHER    -> <<c>>

JsonString(cs) == <<"\"">> \o Concat([i \in DOMAIN cs |-> JsonEscape(cs[i])]) \o <<"\"">>

\* A value of a heading record: its text is a str, every other value an int
JsonValue(h, key) == IF key = "text" THEN JsonString(h[key]) ELSE IntChars(h[key])

\* parts joined by sep
RECURSIVE JoinWith(_, _)
JoinWith(parts, sep) ==
    IF parts = <<>> THEN <<>>
    ELSE IF Len(parts) = 1 THEN parts[1]
    ELSE parts[1] \o sep \o JoinWith(Tail(parts), sep)

\* json.dump(headings, f, indent=2, ensure_ascii=False) for a list of dicts
\* whose keys were inserted in the order keys
json_dump(hs, keys) ==
    IF hs = <<>> THEN Str("[]")
    ELSE LET member(h, k) == JsonString(Str(keys[k])) \o Str(": ") \o JsonValue(h, keys[k])
             object(h) == Str("{") \o <<"\n">> \o Str("    ")
                            \o JoinWith([k \in DOMAIN keys |-> member(h, k)],
                                        Str(",") \o <<"\n">> \o Str("    "))
                            \o <<"\n">> \o Str("  }")
         IN  Str("[") \o <<"\n">> \o Str("  ")
               \o JoinWith([i \in DOMAIN hs |-> object(hs[i])],
                           Str(",") \o <<"\n">> \o Str("  "))
               \o <<"\n">> \o Str("]")

\* (mutant) the character after a backslash is taken as it is
DecodeEscape_Literal(c) == c

\* The character an escape of a JSON string stands for
DecodeEscape(c) ==
    CASE c = "n" -> "\n"
      [] c = "r" -> "\r"
      [] c = "t" -> "\t"
      [] c \in {"\"", "\\", "/"} -> c

\* The JSON decoder, for a list of objects whose values are integers and
\* strings.  Each parser returns the value and the position after it.
SkipWs(s, pos) == RunEnd(s, pos, SpaceChars)

\* pos is after the opening quote
RECURSIVE ParseString(_, _)
ParseString(s, pos) ==
    IF s[pos] = "\"" THEN [val |-> <<>>, next |-> pos + 1]
    ELSE IF s[pos] = "\\"
         THEN LET rest == ParseString(s, pos + 2)
              IN  [val |-> <<DecodeEscape(s[pos + 1])>> \o rest.val, next |-> rest.next]
    ELSE LET rest == ParseString(s, pos + 1)
         IN  [val |-> <<s[pos]>> \o rest.val, next |-> rest.next]

ParseValue(s, pos) ==
    IF s[pos] = "\"" THEN ParseString(s, pos + 1)
    ELSE LET e == RunEnd(s, pos + 1, DigitChars)
         IN  [val |-> IntValue(Slice(s, pos, e - 1)), next |-> e]

\* pos is at the first key of an object, or at its closing brace
RECURSIVE ParseMembers(_, _, _)
ParseMembers(s, pos, acc) ==
    IF s[pos] = "}" THEN [val |-> acc, next |-> pos + 1]
    ELSE LET key   == ParseString(s, pos + 1)
             colon == SkipWs(s, key.next)
             value == ParseValue(s, SkipWs(s, colon + 1))
             after == SkipWs(s, value.next)
             dict  == (Unstr(key.val) :> value.val) @@ acc
         IN  IF s[after] = ","
             THEN ParseMembers(s, SkipWs(s, after + 1), dict)
             ELSE [val |-> dict, next |-> after + 1]

\* pos is at the first object of the list, or at its closing bracket
RECURSIVE ParseElements(_, _)
ParseElements(s, pos) ==
    IF s[pos] = "]" THEN <<>>
    ELSE LET object == ParseMembers(s, SkipWs(s, pos + 1), <<>>)
             after  == SkipWs(s, object.next)
         IN  IF s[after] = ","
             THEN <<object.val>> \o ParseElements(s, SkipWs(s, after + 1))
             ELSE <<object.val>>

json_load(s) == ParseElements(s, SkipWs(s, SkipWs(s, 1) + 1))

\* load_manual_headings returns what json.load gives for the text of the file.
load_manual_headings(file) == json_load(file.text)

\* Python's min of two numbers
min(a, b) == IF a <= b THEN a ELSE b

\* The heading element both scripts build: level = min(heading['level'], 6),
\* heading_tag = Name(f'/H{level}').
HeadingElem(heading) ==
    [Type |-> "/StructElem",
     S    |-> "/H" \o ToString(min(heading.level, 6)),
     K    |-> <<>>,
     T    |-> heading.text]

\* add_heading_structure_tree: the PDF that is saved at the output path
add_heading_structure_tree(pdf, hs, metadata) ==
    LET root1 == GetOrCreateTree(pdf.Root)
        root2 == Put(root1, "StructTreeRoot",
                     AppendToDocument(root1.StructTreeRoot, MapSeq(HeadingElem, hs)))
        root3 == SetAccessibilityFlags(root2)
        info1 == PutIfTruthy(pdf.docinfo, "Title", metadata, "title")
        info2 == PutIfTruthy(info1, "Author", metadata, "author")
        root4 == PutIfTruthy(root3, "Lang", metadata, "language")
    IN  [exists |-> TRUE, Root |-> root4, docinfo |-> info2]

\* (mutant) the new Document element is put before the elements of the tree
create_complete_structure_tree_KeepOld(Root, hs, images_with_alt) ==
    LET root1   == PutIfMissing(Root, "StructTreeRoot", NewStructTreeRoot)
        figures == MapSeq(FigureElem,
                       SelectSeq(images_with_alt, LAMBDA img : Truthy(img.alt_text)))
        document_elem == Put(NewDocumentElem, "K", MapSeq(HeadingElem, hs) \o figures)
    IN  Put(root1, "StructTreeRoot",
            Put(root1.StructTreeRoot, "K",
                <<document_elem>> \o Get(root1.StructTreeRoot, "K", <<>>)))

\* create_complete_structure_tree: the catalog with StructTreeRoot.K replaced
\* by one new Document element holding the headings, then the figures.
create_complete_structure_tree(Root, hs, images_with_alt) ==
    LET root1   == PutIfMissing(Root, "StructTreeRoot", NewStructTreeRoot)
        figures == MapSeq(FigureElem,
                       SelectSeq(images_with_alt, LAMBDA img : Truthy(img.alt_text)))
        document_elem == Put(NewDocumentElem, "K", MapSeq(HeadingElem, hs) \o figures)
    IN  Put(root1, "StructTreeRoot", Put(root1.StructTreeRoot, "K", <<document_elem>>))

\* Step 4 of run_complete_accessibility: the PDF that is saved at the output
\* path.  The XMP stream it also writes is not part of the modelled state.
CompleteEnhancedPdf(pdf, hs, imgs, metadata) ==
    LET root1 == create_complete_structure_tree(pdf.Root, hs, imgs)
        root2 == SetAccessibilityFlags(root1)
        info1 == Put(pdf.docinfo, "Title", metadata.title)
        info2 == PutIfTruthy(info1, "Author", metadata, "author")
        info3 == Put(info2, "Subject", metadata.subject)
        info4 == Put(info3, "Keywords", metadata.keywords)
        root3 == Put(root2, "Lang", metadata.language)
    IN  [exists |-> TRUE, Root |-> root3, docinfo |-> info4]

\* The elements of the first structure element that the verification counts
\* as headings: hasattr(e, 'S') and str(e.S).startswith('/H')
HeadingElements(Root) ==
    IF /\ Has(Root, "StructTreeRoot")
       /\ Has(Root.StructTreeRoot, "K")
       /\ Len(Root.StructTreeRoot.K) > 0
       /\ Has(Root.StructTreeRoot.K[1], "K")
    THEN SelectSeq(Root.StructTreeRoot.K[1].K,
                   LAMBDA e : Has(e, "S") /\ Slice(Str(e.S), 1, 2) = Str("/H"))
    ELSE <<>>

\* The checks dict of run_complete_accessibility
HeadingsChecks(pdf) ==
    [StructTreeRoot  |-> Has(pdf.Root, "StructTreeRoot"),
     Marked          |-> Get(Get(pdf.Root, "MarkInfo", <<>>), "Marked", FALSE),
     DisplayDocTitle |-> Get(Get(pdf.Root, "ViewerPreferences", <<>>),
                             "DisplayDocTitle", FALSE),
     Language        |-> Has(pdf.Root, "Lang"),
     Title           |-> Has(pdf.docinfo, "Title")]

(* Inputs *)

MaxHeadings == 2
MaxPages    == 2

ManualLevels == {-1, 0, 2, 7}

ManualHeadingLists ==
    UNION {[1..n -> {[page |-> 1, text |-> Str("Title"), level |-> l] :
                        l \in ManualLevels}] : n \in 0..MaxHeadings}

\* A hand-written headings file: page, text and level of each heading
HeadingsFiles ==
    {[exists |-> TRUE, text |-> json_dump(hs, <<"page", "text", "level">>)] :
        hs \in ManualHeadingLists}

PageChoices == { Page(Str("INTRODUCTION")),
                 Page(Str("   ") \o <<"\n">> \o Str("  1.1 Background Methods ")),
                 Page(Str("A plain line of text.") \o <<"\n">> \o Str("Summary")) }

PageTexts == UNION {[1..n -> PageChoices] : n \in 0..MaxPages}

\* The metadata dict of add_heading_tags.py main: --title, --author, --language
HeadingArgs == { [title |-> None, author |-> None, language |-> "en"],
                 [title |-> "A Title", author |-> "An Author", language |-> "sv"] }

HeadingScripts == {"add_heading_tags", "complete_accessibility_with_headings"}

HeadingTagsInit ==
    /\ script \in HeadingScripts
    /\ pc = "main"
    /\ input_pdf \in InputPdfs \cup {NoFile}
    /\ \/ headings_file = NoFile
          /\ page_texts \in (IF input_pdf = NoFile THEN {<<>>} ELSE PageTexts)
       \/ headings_file \in HeadingsFiles /\ input_pdf /= NoFile
          /\ page_texts = <<Page(Str("Title"))>>
    /\ IF script = "add_heading_tags"
       THEN alt_text_mode = None /\ ANTHROPIC_AVAILABLE = FALSE /\ xobjects = <<>>
       ELSE /\ alt_text_mode \in AltTextModes \cup {None}
            /\ ANTHROPIC_AVAILABLE \in
                   (IF alt_text_mode = "auto" THEN BOOLEAN ELSE {FALSE})
            /\ xobjects \in (IF input_pdf = NoFile THEN {<<>>}
                              ELSE {xs \in XObjectLists : Len(xs) <= 1})
    /\ analysis = NoAnalysis
    /\ images = <<>> /\ headings = <<>>
    /\ output_pdf = NoFile
    /\ report = NoReport
    /\ saved = FALSE /\ api_log = <<>> /\ exit_code = NoExit
    /\ reader = NoReader /\ AnaIdle
    /\ text = <<>> /\ filename = <<>> /\ doc_type = None /\ doc_type_again = None
    /\ line = <<>> /\ is_heading = None /\ level = 0 /\ text_blocks = <<>>

\* Step 1 of run_complete_accessibility
AnalyzeForHeadings ==
    /\ pc = "start"
    /\ analysis' \in Analyses
    /\ pc' = "step2"
    /\ UNCHANGED <<clsVars, headVars, anaVars, argVars, images, headings, output_pdf, report,
                   runVars>>

\* Step 2 of run_complete_accessibility (lines 130-147): the images are
\* extracted and, when there are any, given their alt text in the chosen way;
\* with none of the four options (alt_text_mode = None) they are left as
\* extracted.
ProcessImages ==
    /\ pc = "step2"
    /\ LET extracted == extract_images_from_pdf(xobjects) IN
       \/ /\ alt_text_mode \in {"skip", None} \/ extracted = <<>>
          /\ images' = IF alt_text_mode = "skip" THEN <<>> ELSE extracted
          /\ pc' = "headings"
          /\ UNCHANGED <<api_log, exit_code>>
       \/ /\ alt_text_mode = "auto" /\ extracted /= <<>>
          /\ \E api \in [DOMAIN extracted -> ApiOutcomes] :
                 /\ images' = add_alt_text_auto(extracted, ANTHROPIC_AVAILABLE, api)
                 /\ api_log' = IF ANTHROPIC_AVAILABLE THEN api ELSE <<>>
          /\ pc' = "headings"
          /\ exit_code' = exit_code
       \/ /\ alt_text_mode = "interactive" /\ extracted /= <<>>
          /\ \E typed \in [DOMAIN extracted -> TypedLines] :
                 images' = add_alt_text_interactive(extracted, typed)
          /\ pc' = "headings"
          /\ UNCHANGED <<api_log, exit_code>>
       \/ /\ alt_text_mode = "file" /\ extracted /= <<>>
          /\ \E alt_texts \in AltTextFiles :
                 images' = add_alt_text_from_file(extracted, alt_texts)
          /\ pc' = "headings"
          /\ UNCHANGED <<api_log, exit_code>>
       \/ /\ alt_text_mode = "file" /\ extracted /= <<>>
          /\ images' = images
          /\ pc' = "failed"
          /\ exit_code' = Exited(1)
          /\ api_log' = api_log
    /\ UNCHANGED <<clsVars, headVars, anaVars, argVars, analysis, headings, output_pdf, report,
                   saved>>

\* headings = load_manual_headings(args.manual_headings)
LoadManualHeadings ==
    /\ pc = "headings"
    /\ headings_file /= NoFile
    /\ headings' = load_manual_headings(headings_file)
    /\ pc' = "create"
    /\ UNCHANGED <<clsVars, headVars, anaVars, argVars, analysis, images, output_pdf, report,
                   runVars>>

\* text_blocks = extract_text_with_fonts(pdf); headings = identify_headings(text_blocks)
IdentifyHeadings ==
    /\ pc = "headings"
    /\ headings_file = NoFile
    /\ text_blocks' = extract_text_with_fonts(page_texts)
    /\ headings' = identify_headings(text_blocks')
    /\ pc' = "create"
    /\ UNCHANGED <<clsVars, line, is_heading, level, anaVars, argVars, analysis,
                   images, output_pdf, report, runVars>>

\* add_heading_tags.py main, lines 327-333
AddHeadingStructureTree ==
    /\ pc = "create"
    /\ script = "add_heading_tags"
    /\ \E metadata \in HeadingArgs :
           output_pdf' = add_heading_structure_tree(input_pdf, headings, metadata)
    /\ saved' = TRUE
    /\ pc' = "verify"
    /\ UNCHANGED <<clsVars, headVars, anaVars, argVars, analysis, images, headings, report,
                   api_log, exit_code>>

\* Step 4 of run_complete_accessibility
CreateEnhancedPdf ==
    /\ pc = "create"
    /\ script = "complete_accessibility_with_headings"
    /\ output_pdf' = CompleteEnhancedPdf(input_pdf, headings, images,
                                         MetadataOf(analysis))
    /\ saved' = TRUE
    /\ pc' = "verify"
    /\ UNCHANGED <<clsVars, headVars, anaVars, argVars, analysis, images, headings, report,
                   api_log, exit_code>>

\* The verification of both scripts: the output is opened and its heading
\* elements (and, in the complete script, its figures) are counted.
VerifyHeadings ==
    /\ pc = "verify"
    /\ report' = [made |-> TRUE,
                  checks |-> HeadingsChecks(output_pdf),
                  heading_count |-> Len(HeadingElements(output_pdf.Root)),
                  figure_count |-> FigureCount(output_pdf.Root)]
    /\ pc' = "done"
    /\ UNCHANGED <<clsVars, headVars, anaVars, argVars, analysis, images, headings, output_pdf,
                   runVars>>

HeadingTagsNext ==
    \/ CheckInputFile
    \/ ExitWithStatus
    \/ AnalyzeForHeadings
    \/ ProcessImages
    \/ LoadManualHeadings
    \/ IdentifyHeadings
    \/ AddHeadingStructureTree
    \/ CreateEnhancedPdf
    \/ VerifyHeadings

SpecHeadingTags == HeadingTagsInit /\ [][HeadingTagsNext]_vars

---------------------------------------------------------------------------
(* The five functions that tag a PDF, each applied to an input file and    *)
(* then, in a second run, to the file it wrote: add_structure_tree_to_pdf, *)
(* enhance_pdf_accessibility, add_alt_text_to_pdf,                         *)
(* add_heading_structure_tree and create_complete_structure_tree (step 4   *)
(* of run_complete_accessibility).                                         *)

\* del d['/k']
Remove(d, k) == [x \in DOMAIN d \ {k} |-> d[x]]

\* pdf.docinfo['/k'] = v, where pikepdf has accepted a v that is None: a
\* null entry is no entry
PutOrRemove(d, k, v) == IF v = None THEN Remove(d, k) ELSE Put(d, k, v)

\* add_structure_tags.py, lines 86-89: a value that is None is given to
\* pdf.docinfo[...] as it is
AssignsNone(metadata) ==
    /\ metadata /= <<>>
    /\ \E k \in {"title", "author", "subject", "keywords"} : Get(metadata, k, "") = None

\* add_structure_tree_to_pdf: the PDF that is saved at the output path.  The
\* XMP stream it also writes is not part of the modelled state.
add_structure_tree_to_pdf(pdf, metadata) ==
    LET root1 == PutIfMissing(pdf.Root, "StructTreeRoot",
                     Put(NewStructTreeRoot, "K", <<NewDocumentElem>>))
        root2 == PutIfMissing(root1, "MarkInfo", <<>>)
        root3 == Put(root2, "MarkInfo", Put(root2.MarkInfo, "Marked", TRUE))
        root4 == PutIfMissing(root3, "ViewerPreferences", <<>>)
        root5 == Put(root4, "ViewerPreferences",
                     Put(root4.ViewerPreferences, "DisplayDocTitle", TRUE))
        info1 == PutOrRemove(pdf.docinfo, "Title", Get(metadata, "title", ""))
        info2 == PutOrRemove(info1, "Author", Get(metadata, "author", ""))
        info3 == PutOrRemove(info2, "Subject", Get(metadata, "subject", ""))
        info4 == PutOrRemove(info3, "Keywords", Get(metadata, "keywords", ""))
    IN  IF metadata = <<>>
        THEN [exists |-> TRUE, Root |-> root5, docinfo |-> pdf.docinfo]
        ELSE [exists |-> TRUE, Root |-> PutIfTruthy(root5, "Lang", metadata, "language"),
              docinfo |-> info4]

\* struct_tree_root.K of create_structure_tree_with_images and of
\* add_heading_structure_tree raises when the tree of the input has no /K
TreeWithoutK(pdf) ==
    Has(pdf.Root, "StructTreeRoot") /\ ~Has(pdf.Root.StructTreeRoot, "K")

(* Inputs *)

MaxTagImages   == 2
MaxTagHeadings == 2

TaggingScripts == {"add_structure_tags", "enhance_pdf_accessibility",
                   "add_alt_text_to_images", "add_heading_tags",
                   "complete_accessibility_with_headings"}

\* The input PDFs of the workflows, one whose tree has a role map, whose
\* MarkInfo has no Marked and whose ViewerPreferences shows the title
\* already, and one whose tree has no /K
TaggingPdfs ==
    InputPdfs \cup {
    [exists |-> TRUE,
     Root |-> [Type |-> "/Catalog",
               StructTreeRoot |->
                   [Type |-> "/StructTreeRoot",
                    K |-> <<Put(NewDocumentElem, "K", <<OldFigure>>)>>,
                    ParentTree |-> [Nums |-> <<>>],
                    RoleMap |-> [Heading |-> "/H1"], Lang |-> "sv"],
               MarkInfo |-> [Suspects |-> TRUE],
               ViewerPreferences |-> [DisplayDocTitle |-> TRUE, FitWindow |-> TRUE]],
     docinfo |-> [Producer |-> "p"]],
    [exists |-> TRUE,
     Root |-> [Type |-> "/Catalog",
               StructTreeRoot |-> [Type |-> "/StructTreeRoot"],
               ViewerPreferences |-> <<>>],
     docinfo |-> [Producer |-> "p"]] }

TagAltTexts == <<None, "", "a chart", "a photo">>

TagImages ==
    {[i \in DOMAIN f |-> [id |-> i, page |-> i, alt_text |-> TagAltTexts[f[i]]]] :
        f \in TokenSeqs(TagAltTexts, MaxTagImages)}

TagHeadingChoices == << [page |-> 1, text |-> Str("Intro"), level |-> 1],
                        [page |-> 2, text |-> Str("Scope"), level |-> 7] >>

TagHeadings ==
    {[i \in DOMAIN f |-> TagHeadingChoices[f[i]]] :
        f \in TokenSeqs(TagHeadingChoices, MaxTagHeadings)}

\* metadata=None, the dict of main with only --language given, and a dict
\* with every entry
TagMetadata ==
    { <<>>,
      [title |-> None, author |-> None, subject |-> None, keywords |-> None,
       language |-> "en"],
      [title |-> "A Title", author |-> "An Author", subject |-> "A Subject",
       keywords |-> "one, two", language |-> "sv"] }

TaggingInit ==
    /\ pc = "open"
    /\ script \in TaggingScripts
    /\ input_pdf \in TaggingPdfs
    /\ images \in (IF script \in {"add_alt_text_to_images",
                                   "complete_accessibility_with_headings"}
                   THEN TagImages ELSE {<<>>})
    /\ headings \in (IF script \in {"add_heading_tags",
                                     "complete_accessibility_with_headings"}
                     THEN TagHeadings ELSE {<<>>})
    /\ output_pdf = NoFile
    /\ alt_text_mode = None /\ ANTHROPIC_AVAILABLE = FALSE /\ xobjects = <<>>
    /\ page_texts = <<>> /\ headings_file = NoFile
    /\ analysis = NoAnalysis /\ report = NoReport
    /\ saved = FALSE /\ api_log = <<>> /\ exit_code = NoExit
    /\ reader = NoReader /\ AnaIdle
    /\ text = <<>> /\ filename = <<>> /\ doc_type = None /\ doc_type_again = None
    /\ line = <<>> /\ is_heading = None /\ level = 0 /\ text_blocks = <<>>

\* The position after a run: of the first run, or of the run on its output
Tagged == IF pc = "open" THEN "tagged" ELSE "tagged again"

\* add_structure_tree_to_pdf(input_path, output_path, metadata).  What
\* pikepdf does with a None given to pdf.docinfo[...] is not in the source:
\* it raises, and nothing is saved, or it takes the None for a null entry.
TagStructure ==
    /\ pc \in {"open", "reopened"}
    /\ script = "add_structure_tags"
    /\ \E metadata \in TagMetadata :
          \/ /\ output_pdf' = add_structure_tree_to_pdf(input_pdf, metadata)
             /\ saved' = TRUE
             /\ pc' = Tagged
          \/ /\ AssignsNone(metadata)
             /\ pc' = "failed"
             /\ UNCHANGED <<output_pdf, saved>>
    /\ UNCHANGED <<clsVars, headVars, anaVars, argVars, analysis, images, headings,
                   report, api_log, exit_code>>

\* enhance_pdf_accessibility(input_path, output_path, metadata)
TagEnhance ==
    /\ pc \in {"open", "reopened"}
    /\ script = "enhance_pdf_accessibility"
    /\ \E metadata \in TagMetadata :
           output_pdf' = enhance_pdf_accessibility(input_pdf, metadata)
    /\ saved' = TRUE
    /\ pc' = Tagged
    /\ UNCHANGED <<clsVars, headVars, anaVars, argVars, analysis, images, headings,
                   report, api_log, exit_code>>

\* add_alt_text_to_pdf(input_path, output_path, images, metadata)
TagAltText ==
    /\ pc \in {"open", "reopened"}
    /\ script = "add_alt_text_to_images"
    /\ IF TreeWithoutK(input_pdf)
       THEN pc' = "failed" /\ UNCHANGED <<output_pdf, saved>>
       ELSE /\ \E metadata \in TagMetadata :
                   output_pdf' = add_alt_text_to_pdf(input_pdf, images, metadata)
            /\ saved' = TRUE
            /\ pc' = Tagged
    /\ UNCHANGED <<clsVars, headVars, anaVars, argVars, analysis, images, headings,
                   report, api_log, exit_code>>

\* add_heading_structure_tree(pdf_path, output_path, headings, metadata)
TagHeadingStructure ==
    /\ pc \in {"open", "reopened"}
    /\ script = "add_heading_tags"
    /\ IF TreeWithoutK(input_pdf)
       THEN pc' = "failed" /\ UNCHANGED <<output_pdf, saved>>
       ELSE /\ \E metadata \in TagMetadata :
                   output_pdf' = add_heading_structure_tree(input_pdf, headings, metadata)
            /\ saved' = TRUE
            /\ pc' = Tagged
    /\ UNCHANGED <<clsVars, headVars, anaVars, argVars, analysis, images, headings,
                   report, api_log, exit_code>>

\* Step 4 of run_complete_accessibility: create_complete_structure_tree, the
\* flags and the metadata of the analysis
TagComplete ==
    /\ pc \in {"open", "reopened"}
    /\ script = "complete_accessibility_with_headings"
    /\ \E a \in Analyses :
           output_pdf' = CompleteEnhancedPdf(input_pdf, headings, images, MetadataOf(a))
    /\ saved' = TRUE
    /\ pc' = Tagged
    /\ UNCHANGED <<clsVars, headVars, anaVars, argVars, analysis, images, headings,
                   report, api_log, exit_code>>

\* The next run of the script takes the file that the run wrote as its input
Reopen ==
    /\ pc = "tagged"
    /\ input_pdf' = output_pdf
    /\ output_pdf' = NoFile
    /\ saved' = FALSE
    /\ pc' = "reopened"
    /\ UNCHANGED <<clsVars, headVars, anaVars, script, alt_text_mode,
                   ANTHROPIC_AVAILABLE, xobjects, page_texts, headings_file, reader,
                   analysis, images, headings, report, api_log, exit_code>>

TaggingNext ==
    \/ TagStructure
    \/ TagEnhance
    \/ TagAltText
    \/ TagHeadingStructure
    \/ TagComplete
    \/ Reopen

SpecTagging == TaggingInit /\ [][TaggingNext]_vars

---------------------------------------------------------------------------
(* analyze_and_tag_pdf.py: detect_language *)

\* An argument that may be None.
Some(v) == [some |-> TRUE, value |-> v]
Absent  == [some |-> FALSE]

\* ("en", [("en", 1.0)]); a probability is written in thousandths.
DefaultLanguage == <<"en", <<<<"en", 1000>>>>>>

Returned(result, calls) ==
    [returned |-> TRUE, raised |-> FALSE, result |-> result, calls |-> calls]
Raised(calls) ==
    [returned |-> FALSE, raised |-> TRUE, calls |-> calls]

\* (mutant) the detector is consulted from 9 characters on.
detect_language_From9(t, det) ==
    IF ~t.some \/ t.value = <<>> \/ Len(Strip(t.value)) < 9
    THEN Returned(DefaultLanguage, 0)
    ELSE IF det.detect.kind = "LangDetectException"
    THEN Returned(DefaultLanguage, 1)
    ELSE IF det.detect.kind /= "ok" THEN Raised(1)
    ELSE IF det.detect_langs.kind = "LangDetectException"
    THEN Returned(DefaultLanguage, 2)
    ELSE IF det.detect_langs.kind /= "ok" THEN Raised(2)
    ELSE Returned(<<det.detect.lang,
                    [i \in DOMAIN det.detect_langs.langs |->
                        <<det.detect_langs.langs[i].lang,
                          det.detect_langs.langs[i].prob>>]>>, 2)

\* detect_language(text), given what detect(text) and detect_langs(text) do
\* when they are called: each returns, raises LangDetectException, or raises
\* an exception of another class, which "except LangDetectException" lets
\* through.  str(lp) is "lang:prob", which the two splits take apart again.
detect_language(t, det) ==
    IF ~t.some \/ t.value = <<>> \/ Len(Strip(t.value)) < 10
    THEN Returned(DefaultLanguage, 0)
    ELSE IF det.detect.kind = "LangDetectException"
    THEN Returned(DefaultLanguage, 1)
    ELSE IF det.detect.kind /= "ok" THEN Raised(1)
    ELSE IF det.detect_langs.kind = "LangDetectException"
    THEN Returned(DefaultLanguage, 2)
    ELSE IF det.detect_langs.kind /= "ok" THEN Raised(2)
    ELSE Returned(<<det.detect.lang,
                    [i \in DOMAIN det.detect_langs.langs |->
                        <<det.detect_langs.langs[i].lang,
                          det.detect_langs.langs[i].prob>>]>>, 2)

(* Inputs: a run of letters between blanks, and what the detector does. *)

MaxLangTextLen == 11
MaxBlanks      == 2

LangTexts ==
    {Rep(" ", a) \o Rep("x", n) \o Rep("\n", b) :
        a \in 0..MaxBlanks, n \in 0..MaxLangTextLen, b \in 0..MaxBlanks}

DetectOutcomes ==
    { [kind |-> "ok", lang |-> "sv"],
      [kind |-> "LangDetectException"],
      [kind |-> "Exception"] }

DetectLangsOutcomes ==
    { [kind |-> "ok", langs |-> <<[lang |-> "sv", prob |-> 857],
                                  [lang |-> "en", prob |-> 142]>>],
      [kind |-> "LangDetectException"],
      [kind |-> "Exception"] }

Detectors ==
    {[used |-> TRUE, detect |-> d, detect_langs |-> dl] :
        d \in DetectOutcomes, dl \in DetectLangsOutcomes}

\* text holds the argument of detect_language: Some(characters) or Absent.
LanguageInit ==
    /\ pc = "text"
    /\ text \in {Some(t) : t \in LangTexts} \cup {Absent}
    /\ detector \in Detectors
    /\ detector_calls = 0
    /\ language = NoLanguage
    /\ title = None /\ author = None
    /\ filename = <<>> /\ doc_type = None /\ doc_type_again = None
    /\ line = <<>> /\ is_heading = None /\ level = 0 /\ text_blocks = <<>>
    /\ PdfIdle

DetectLanguage ==
    /\ pc = "text"
    /\ LET r == detect_language(text, detector) IN
       /\ language' = IF r.raised THEN [returned |-> FALSE, raised |-> TRUE]
                      ELSE [returned |-> TRUE, raised |-> FALSE, result |-> r.result]
       /\ detector_calls' = r.calls
       /\ pc' = IF r.raised THEN "failed" ELSE "language"
    /\ UNCHANGED <<clsVars, headVars, detector, title, author, pdfVars>>

LanguageNext == DetectLanguage

SpecLanguage == LanguageInit /\ [][LanguageNext]_vars

---------------------------------------------------------------------------
(* analyze_and_tag_pdf.py: extract_title_from_pdf and the suggested title.  *)
(* A reader is what PdfReader shows of the file: its metadata (absent, or   *)
(* with a title and an author that may be None) and the text of its pages.  *)

UpperOf == [c \in LowerChars |->
              UpperSeq[CHOOSE i \in 1..Len(LowerSeq) : LowerSeq[i] = c]]

\* str.title(): a letter is upper-cased after a character that is no letter
\* (and at the start), and lower-cased after a letter.
TitleCase(cs) ==
    [i \in 1..Len(cs) |->
        LET after_letter == i > 1 /\ cs[i - 1] \in UpperChars \cup LowerChars IN
        IF cs[i] \in LowerChars /\ ~after_letter THEN UpperOf[cs[i]]
        ELSE IF cs[i] \in UpperChars /\ after_letter THEN LowerOf[cs[i]]
        ELSE cs[i]]

\* str.replace(old, new) for single characters
Replace(cs, old, new) == [i \in 1..Len(cs) |-> IF cs[i] = old THEN new ELSE cs[i]]

\* [line.strip() for line in text.split('\n') if line.strip()]
StrippedLines(cs) ==
    SelectSeq([i \in DOMAIN SplitLines(cs) |-> Strip(SplitLines(cs)[i])],
              LAMBDA ln : ln /= <<>>)

\* Path(name).stem: the name without its last suffix; a dot at the start or at
\* the end of the name starts no suffix.
Stem(name) ==
    LET dots == {i \in 2..(Len(name) - 1) : name[i] = "."} IN
    IF dots = {} THEN name
    ELSE Slice(name, 1, (CHOOSE i \in dots : \A j \in dots : j <= i) - 1)

\* (mutant) a first line that is too long is passed over for the next one.
extract_title_NextLine(rd) ==
    IF rd.metadata.present /\ Truthy(rd.metadata.title) THEN rd.metadata.title
    ELSE IF rd.pages = <<>> THEN None
    ELSE LET lines == SelectSeq(StrippedLines(rd.pages[1]), LAMBDA ln : Len(ln) < 100)
         IN  IF lines /= <<>> THEN Unstr(lines[1]) ELSE None

extract_title_from_pdf(rd) ==
    IF rd.metadata.present /\ Truthy(rd.metadata.title) THEN rd.metadata.title
    ELSE IF rd.pages = <<>> THEN None
    ELSE LET lines == StrippedLines(rd.pages[1])
         IN  IF lines /= <<>> /\ Len(lines[1]) < 100 THEN Unstr(lines[1]) ELSE None

\* analyze_pdf: title or path.stem.replace('_', ' ').replace('-', ' ').title()
suggested_title(t, name) ==
    IF Truthy(t) THEN t
    ELSE Unstr(TitleCase(Replace(Replace(Stem(name), "_", " "), "-", " ")))

(* Inputs *)

MaxTitleLines == 3

TitleLines == << <<>>, Str("  "), Str(" A Short Title "), Rep("x", 99), Rep("y", 100),
                 Str("second line") >>

TitlePages ==
    {JoinLines([i \in DOMAIN f |-> TitleLines[f[i]]]) :
        f \in TokenSeqs(TitleLines, MaxTitleLines)}

TitleMetadata ==
    { [present |-> FALSE],
      [present |-> TRUE, title |-> None, author |-> None],
      [present |-> TRUE, title |-> "", author |-> None],
      [present |-> TRUE, title |-> "Embedded Title", author |-> None] }

TitleReaders ==
    {[opened |-> TRUE, metadata |-> m, pages |-> ps] :
        m \in TitleMetadata,
        ps \in {<<>>} \cup {<<page>> : page \in TitlePages}
                      \cup {<<<<>>, Str("page two")>>}}

TitleFilenames == { Str("my_course-notes.pdf"), Str("lecture2b.v1.pdf"),
                    Str("READ-ME"), Str(".hidden") }

TitleInit ==
    /\ pc = "reader"
    /\ reader \in TitleReaders
    /\ filename \in TitleFilenames
    /\ title = None /\ author = None
    /\ detector = NoDetector /\ detector_calls = 0 /\ language = NoLanguage
    /\ script = None /\ alt_text_mode = None /\ ANTHROPIC_AVAILABLE = FALSE
    /\ input_pdf = NoFile /\ xobjects = <<>> /\ analysis = NoAnalysis
    /\ page_texts = <<>> /\ headings_file = NoFile
    /\ saved = FALSE /\ api_log = <<>> /\ exit_code = NoExit
    /\ images = <<>> /\ headings = <<>> /\ output_pdf = NoFile
    /\ report = NoReport
    /\ text = <<>> /\ doc_type = None /\ doc_type_again = None
    /\ line = <<>> /\ is_heading = None /\ level = 0 /\ text_blocks = <<>>

\* analyze_pdf, lines 503-504 and 514: the title and the suggested title
SuggestTitle ==
    /\ pc = "reader"
    /\ title' = extract_title_from_pdf(reader)
    /\ analysis' = [made |-> TRUE,
                    suggested_title |-> suggested_title(title', filename)]
    /\ pc' = "titled"
    /\ UNCHANGED <<clsVars, headVars, detector, detector_calls, language, author,
                   argVars, images, headings, output_pdf, report, runVars>>

TitleNext == SuggestTitle

SpecTitle == TitleInit /\ [][TitleNext]_vars

---------------------------------------------------------------------------
(* analyze_and_tag_pdf.py: extract_author_from_pdf.  Its six patterns are   *)
(* anchored at both ends of the line and searched with re.IGNORECASE.       *)

AsciiLetters == Range(Str("ABCDEFGHIJKLMNOPQRSTUVWXYZabcdefghijklmnopqrstuvwxyz"))

\* [\s:]
SepChars == SpaceChars \cup {":"}

\* [\w\.-]
AddressChars == WordChars \cup {".", "-"}

NoMatch   == [matched |-> FALSE]
Group(cs) == [matched |-> TRUE, group |-> cs]

\* [\s:]+(.+?)$ after a keyword of k characters: the separators take their
\* longest run, and give back one character when the run reaches the end of
\* the line, for the group needs one.
AfterKeyword(ln, k) ==
    LET e == RunEnd(ln, k + 1, SepChars) IN
    IF e = k + 1 THEN NoMatch
    ELSE IF e <= Len(ln) THEN Group(Slice(ln, e, Len(ln)))
    ELSE IF Len(ln) - k >= 2 THEN Group(<<ln[Len(ln)]>>)
    ELSE NoMatch

\* ^(?:k1|k2|...)[\s:]+(.+?)$
KeywordPattern(keywords, ln) ==
    LET hits == {i \in DOMAIN keywords :
                    /\ Len(ln) >= Len(keywords[i])
                    /\ Lower(Slice(ln, 1, Len(keywords[i]))) = keywords[i]
                    /\ AfterKeyword(ln, Len(keywords[i])).matched}
    IN  IF hits = {} THEN NoMatch
        ELSE AfterKeyword(ln, Len(keywords[CHOOSE i \in hits : \A j \in hits : i <= j]))

\* ^([A-Z][a-z]+\s+[A-Z][a-z]+(?:\s+[A-Z][a-z]+)?)$ with IGNORECASE: two or
\* three words of two or more ASCII letters, of either case.
NamePattern(ln) ==
    LET starts == {i \in DOMAIN ln : /\ ln[i] \in AsciiLetters
                                     /\ (i = 1 \/ ln[i - 1] \notin AsciiLetters)}
    IN  IF /\ ln /= <<>>
           /\ \A i \in DOMAIN ln : ln[i] \in AsciiLetters \cup SpaceChars
           /\ ln[1] \in AsciiLetters /\ ln[Len(ln)] \in AsciiLetters
           /\ Cardinality(starts) \in {2, 3}
           /\ \A i \in starts : i < Len(ln) /\ ln[i + 1] \in AsciiLetters
        THEN Group(ln) ELSE NoMatch

\* ^(.+?)\s*[<(]?[\w\.-]+@[\w\.-]+[>)]?$ : the address ends the line, so its
\* '@' is the last one; the group is the shortest non-empty prefix after
\* which blanks, an optional bracket and the address remain.
EmailPattern(ln) ==
    LET n   == Len(ln)
        ats == {i \in 1..n : ln[i] = "@"}
    IN  IF ats = {} THEN NoMatch
        ELSE
        LET a      == CHOOSE i \in ats : \A j \in ats : j <= i
            e      == IF ln[n] \in {">", ")"} THEN n - 1 ELSE n
            locals == {j \in 1..(a - 1) : \A i \in j..(a - 1) : ln[i] \in AddressChars}
        IN  IF locals = {} \/ e < a + 1
               \/ \E i \in (a + 1)..e : ln[i] \notin AddressChars
            THEN NoMatch
            ELSE
            LET first  == CHOOSE j \in locals : \A i \in locals : j <= i
                starts == {r \in 2..(a - 1) :
                             \/ r >= first
                             \/ \A i \in r..(first - 1) :
                                   \/ ln[i] \in SpaceChars
                                   \/ i = first - 1 /\ ln[i] \in {"<", "("}}
            IN  IF starts = {} THEN NoMatch
                ELSE Group(Slice(ln, 1, (CHOOSE r \in starts : \A q \in starts : r <= q) - 1))

author_patterns == <<
    [kind |-> "keyword", keywords |-> <<Str("by"), Str("author"), Str("written by"),
                                        Str("presenter"), Str("instructor")>>],
    [kind |-> "name"],
    [kind |-> "keyword", keywords |-> <<Str("av"),
         Str("f") \o <<ch_ouml>> \o Str("rfattare"),
         Str("f") \o <<ch_ouml>> \o Str("rel") \o <<ch_auml>> \o Str("sare")>>],
    [kind |-> "keyword", keywords |-> <<Str("von"), Str("autor"), Str("verfasser")>>],
    [kind |-> "keyword", keywords |-> <<Str("par"), Str("auteur")>>],
    [kind |-> "email"] >>

\* re.search(pattern, line, re.IGNORECASE)
AuthorMatch(pattern, ln) ==
    CASE pattern.kind = "keyword" -> KeywordPattern(pattern.keywords, ln)
      [] pattern.kind = "name"    -> NamePattern(ln)
      [] pattern.kind = "email"   -> EmailPattern(ln)

\* 2 <= len(author) <= 50 and a letter, ASCII or of Latin-1 (A-Grave to y-diaeresis)
ValidAuthor(cs) ==
    /\ 2 <= Len(cs) /\ Len(cs) <= 50
    /\ \E i \in DOMAIN cs : cs[i] \in UpperChars \cup LowerChars

\* re.sub(r'^(by|av|von|par|author|f&ouml;rfattare)[\s:]+', '', author, IGNORECASE)
RemovePrefix(cs) ==
    LET prefixes == <<Str("by"), Str("av"), Str("von"), Str("par"), Str("author"),
                      Str("f") \o <<ch_ouml>> \o Str("rfattare")>>
        hits == {i \in DOMAIN prefixes :
                    /\ Len(cs) > Len(prefixes[i])
                    /\ Lower(Slice(cs, 1, Len(prefixes[i]))) = prefixes[i]
                    /\ cs[Len(prefixes[i]) + 1] \in SepChars}
    IN  IF hits = {} THEN cs
        ELSE LET k == Len(prefixes[CHOOSE i \in hits : \A j \in hits : i <= j])
             IN  Slice(cs, RunEnd(cs, k + 1, SepChars), Len(cs))

\* The candidate of pattern j on the line, stripped; NoMatch when the pattern
\* does not match or its candidate is not valid.
Candidate(ln, j) ==
    LET m == AuthorMatch(author_patterns[j], ln) IN
    IF m.matched /\ ValidAuthor(Strip(m.group)) THEN Group(Strip(m.group)) ELSE NoMatch

\* for pattern in author_patterns: ...
RECURSIVE PatternLoop(_, _)
PatternLoop(ln, j) ==
    IF j > Len(author_patterns) THEN NoMatch
    ELSE IF Candidate(ln, j).matched THEN Candidate(ln, j)
    ELSE PatternLoop(ln, j + 1)

\* (mutant) for i, line in enumerate(lines): no limit of ten lines
RECURSIVE LineLoop_AllLines(_, _)
LineLoop_AllLines(lines, i) ==
    IF i > Len(lines) THEN None
    ELSE IF Len(lines[i]) < 3 \/ Len(lines[i]) > 100 THEN LineLoop_AllLines(lines, i + 1)
    ELSE IF PatternLoop(lines[i], 1).matched
         THEN Unstr(Strip(RemovePrefix(PatternLoop(lines[i], 1).group)))
    ELSE LineLoop_AllLines(lines, i + 1)

\* for i, line in enumerate(lines[:10]): ...
RECURSIVE LineLoop(_, _)
LineLoop(lines, i) ==
    IF i > Len(lines) \/ i > 10 THEN None
    ELSE IF Len(lines[i]) < 3 \/ Len(lines[i]) > 100 THEN LineLoop(lines, i + 1)
    ELSE IF PatternLoop(lines[i], 1).matched
         THEN Unstr(Strip(RemovePrefix(PatternLoop(lines[i], 1).group)))
    ELSE LineLoop(lines, i + 1)

extract_author_AllLines(rd) ==
    IF /\ rd.metadata.present /\ Truthy(rd.metadata.author)
       /\ Strip(Str(rd.metadata.author)) /= <<>>
    THEN Unstr(Strip(Str(rd.metadata.author)))
    ELSE IF rd.pages = <<>> THEN None
    ELSE LineLoop_AllLines(StrippedLines(rd.pages[1]), 1)

extract_author_from_pdf(rd) ==
    IF /\ rd.metadata.present /\ Truthy(rd.metadata.author)
       /\ Strip(Str(rd.metadata.author)) /= <<>>
    THEN Unstr(Strip(Str(rd.metadata.author)))
    ELSE IF rd.pages = <<>> THEN None
    ELSE LineLoop(StrippedLines(rd.pages[1]), 1)

\* analyze_pdf: author or ""
suggested_author(a) == IF Truthy(a) THEN a ELSE ""

(* Inputs *)

MaxAuthorLines == 2

\* A line of 104 characters that ends in an address
LongAddressLine == Str("Jo ") \o Rep("a", 60) \o <<"@">> \o Rep("b", 40)

AuthorLines == << Str("  "), Str("By: Jane Doe"), Str("hello world"),
                  Str("Jane Doe"), Str("author: by :"), Str("par: by A"),
                  Str("av ") \o <<ch_Ouml>> \o Str("berg"), Str("par: by Anna"),
                  Str("Jo <jo@x.se>"), LongAddressLine, Str("x@y.se"),
                  Str("author:") \o Rep("z", 51), Str("by X"),
                  Str("Course notes 2024") >>

\* Lines that no pattern accepts, one per line of the page
FillerLines(n) == Concat([i \in 1..n |-> Str("Part 1.") \o <<"\n">>])

\* Pages of a few lines, and pages whose tenth or eleventh line is the first
\* that a pattern accepts
AuthorPages ==
    {JoinLines([i \in DOMAIN f |-> AuthorLines[f[i]]]) :
        f \in TokenSeqs(AuthorLines, MaxAuthorLines)}
    \cup
    {FillerLines(n) \o AuthorLines[i] : n \in {9, 10}, i \in DOMAIN AuthorLines}

AuthorMetadata ==
    { [present |-> TRUE, title |-> None, author |-> None],
      [present |-> TRUE, title |-> None, author |-> ""],
      [present |-> TRUE, title |-> None, author |-> "  "],
      [present |-> TRUE, title |-> None, author |-> " Embedded Author "] }

AuthorReaders ==
    {[opened |-> TRUE, metadata |-> [present |-> FALSE], pages |-> ps] :
        ps \in {<<>>} \cup {<<page>> : page \in AuthorPages}}
    \cup
    {[opened |-> TRUE, metadata |-> m, pages |-> ps] :
        m \in AuthorMetadata,
        ps \in {<<>>, <<Str("By: Jane Doe")>>, <<Str("Course notes 2024")>>}}

AuthorInit ==
    /\ pc = "reader"
    /\ reader \in AuthorReaders
    /\ filename = <<>>
    /\ title = None /\ author = None
    /\ detector = NoDetector /\ detector_calls = 0 /\ language = NoLanguage
    /\ script = None /\ alt_text_mode = None /\ ANTHROPIC_AVAILABLE = FALSE
    /\ input_pdf = NoFile /\ xobjects = <<>> /\ analysis = NoAnalysis
    /\ page_texts = <<>> /\ headings_file = NoFile
    /\ saved = FALSE /\ api_log = <<>> /\ exit_code = NoExit
    /\ images = <<>> /\ headings = <<>> /\ output_pdf = NoFile
    /\ report = NoReport
    /\ text = <<>> /\ doc_type = None /\ doc_type_again = None
    /\ line = <<>> /\ is_heading = None /\ level = 0 /\ text_blocks = <<>>

\* analyze_pdf, lines 493 and 505: the author and the suggested author
SuggestAuthor ==
    /\ pc = "reader"
    /\ author' = extract_author_from_pdf(reader)
    /\ analysis' = [made |-> TRUE, suggested_author |-> suggested_author(author')]
    /\ pc' = "authored"
    /\ UNCHANGED <<clsVars, headVars, detector, detector_calls, language, title,
                   argVars, images, headings, output_pdf, report, runVars>>

AuthorNext == SuggestAuthor

SpecAuthor == AuthorInit /\ [][AuthorNext]_vars

---------------------------------------------------------------------------
(* analyze_and_tag_pdf.py: extract_text_from_pdf, generate_content_tags and *)
(* analyze_pdf.                                                             *)

ch_white_bullet == "&#9702;"
ch_small_square == "&#9642;"

\* [&bull;\-*&#9702;&#9642;]
BulletChars == {ch_bullet, "-", "*", ch_white_bullet, ch_small_square}

\* full_text += page_text + "\n"
full_text(pages) == Concat([i \in DOMAIN pages |-> pages[i] \o <<"\n">>])

\* (^|\n)\s* ends before pos: the blanks before pos reach back to the start of
\* the text or hold a newline.
AfterLineStart(s, pos) ==
    LET stops == {i \in 1..(pos - 1) : s[i] \notin SpaceChars}
        q     == IF stops = {} THEN 1
                 ELSE (CHOOSE i \in stops : \A j \in stops : j <= i) + 1
    IN  q = 1 \/ \E i \in q..(pos - 1) : s[i] = "\n"

\* re.search(r"(^|\n)\s*[&bull;\-*&#9702;&#9642;]\s+", full_text, re.MULTILINE)
has_bullets(s) ==
    \E b \in 1..(Len(s) - 1) :
        s[b] \in BulletChars /\ s[b + 1] \in SpaceChars /\ AfterLineStart(s, b)

\* re.search(r"(^|\n)\s*\d+[\.)]\s+", full_text, re.MULTILINE)
has_numbers(s) ==
    \E d \in 1..Len(s) :
        /\ s[d] \in DigitChars
        /\ (d = 1 \/ s[d - 1] \in SpaceChars)
        /\ AfterLineStart(s, d)
        /\ LET e == RunEnd(s, d, DigitChars)
           IN  e < Len(s) /\ s[e] \in {".", ")"} /\ s[e + 1] \in SpaceChars

RECURSIVE SumLen(_)
SumLen(pages) == IF pages = <<>> THEN 0 ELSE Len(Head(pages)) + SumLen(Tail(pages))

\* avg_chars_per_page < limit, with avg = sum(len(t)) / max(page_count, 1)
AvgBelow(pages, limit) ==
    SumLen(pages) < limit * (IF Len(pages) > 1 THEN Len(pages) ELSE 1)

\* (mutant) the limit of the comment above the test, "avg < 500 chars"
is_slides_Avg500(pages) ==
    \/ AvgBelow(pages, 500) /\ Len(pages) > 3
    \/ has_bullets(full_text(pages)) /\ Len(pages) > 5
    \/ has_numbers(full_text(pages)) /\ AvgBelow(pages, 800)

is_slides(pages) ==
    \/ AvgBelow(pages, 600) /\ Len(pages) > 3
    \/ has_bullets(full_text(pages)) /\ Len(pages) > 5
    \/ has_numbers(full_text(pages)) /\ AvgBelow(pages, 800)

\* re.search(r"\b(w1|w2|...)\b", text_lower)
SearchWords(words, text_lower) == \E w \in words : Search(BWB(w), text_lower)

\* len(text.split())
word_count(t) ==
    Cardinality({i \in DOMAIN t : /\ t[i] \notin SpaceChars
                                  /\ (i = 1 \/ t[i - 1] \in SpaceChars)})

TopicTags(text_lower) ==
    (IF SearchWords({"diagram", "figure", "chart", "graph", "image"}, text_lower)
     THEN <<"visual-content">> ELSE <<>>)
 \o (IF SearchWords({"table", "column", "row"}, text_lower)
     THEN <<"tabular-data">> ELSE <<>>)
 \o (IF SearchWords({"code", "programming", "function", "class", "variable"}, text_lower)
     THEN <<"technical-content">> ELSE <<>>)
 \o (IF SearchWords({"equation", "formula", "theorem", "proof"}, text_lower)
     THEN <<"mathematical-content">> ELSE <<>>)
 \o (IF SearchWords({"reference", "citation", "bibliography"}, text_lower)
     THEN <<"academic">> ELSE <<>>)

LengthTags(t) ==
    IF word_count(t) < 500 THEN <<"brief">>
    ELSE IF word_count(t) > 5000 THEN <<"comprehensive">>
    ELSE <<>>

\* (mutant) the format is appended after the topic tags
generate_content_tags_FormatLater(t, dt, slides) ==
    <<dt>> \o TopicTags(Lower(t))
           \o <<IF slides THEN "slides" ELSE "text-document">> \o LengthTags(t)

generate_content_tags(t, dt, slides) ==
    <<dt, IF slides THEN "slides" ELSE "text-document">>
        \o TopicTags(Lower(t)) \o LengthTags(t)

\* ", ".join(strs)
RECURSIVE CommaJoin(_)
CommaJoin(strs) ==
    IF strs = <<>> THEN ""
    ELSE IF Len(strs) = 1 THEN strs[1]
    ELSE strs[1] \o ", " \o CommaJoin(Tail(strs))

\* existing_meta.get(key, ""), for a reader whose absent entries are None
MetaGet(rd, key) ==
    IF rd.metadata.present /\ rd.metadata[key] /= None THEN rd.metadata[key] ELSE ""

\* The dictionary analyze_pdf returns, given what detect_language returned.
analyze_pdf(rd, name, lang) ==
    LET t      == full_text(rd.pages)
        slides == is_slides(rd.pages)
        dt     == classify_document_type(t, name)
        tags   == generate_content_tags(t, dt, slides)
        ttl    == extract_title_from_pdf(rd)
        auth   == extract_author_from_pdf(rd)
    IN  [made |-> TRUE,
         filename |-> Unstr(name),
         page_count |-> Len(rd.pages),
         primary_language |-> lang[1],
         language_probabilities |-> lang[2],
         document_type |-> dt,
         format |-> IF slides THEN "slides" ELSE "text-document",
         tags |-> tags,
         suggested_title |-> suggested_title(ttl, name),
         suggested_author |-> suggested_author(auth),
         suggested_subject |-> Unstr(TitleCase(Str(dt))) \o " - "
                                  \o CommaJoin(Slice(tags, 1, 3)),
         suggested_keywords |-> CommaJoin(tags),
         existing_metadata |-> [title    |-> MetaGet(rd, "title"),
                                author   |-> MetaGet(rd, "author"),
                                subject  |-> MetaGet(rd, "subject"),
                                keywords |-> MetaGet(rd, "keywords")]]

(* Inputs *)

MaxAnalyzePages == 2

\* A page of 500 words
LongPage == [i \in 1..1000 |-> IF i % 2 = 1 THEN "w" ELSE " "]

AnalyzePageTexts == << <<>>, Str("Lecture notes with a diagram"),
                       Str("1. Intro") \o <<"\n">> \o Str("- a table of code"),
                       Str("the proof; see the bibliography"),
                       Str("  * item") >>

\* A page of n characters that begins with the given marker
MarkedPage(marker, n) == marker \o Rep("x", n - Len(marker))

\* Page lists at the limits of the slide test: an average of 599.75 and of
\* 600 on four pages and below 600 on three, a bullet on six and on five
\* pages of 600, and a numbered item on a page of 799, 800 and 599
\* characters, a bullet on a page of 700
SlideLimitPages ==
    { <<MarkedPage(<<>>, 599)>> \o Rep(MarkedPage(<<>>, 600), 3),
      Rep(MarkedPage(<<>>, 600), 4),
      Rep(MarkedPage(<<>>, 599), 3),
      Rep(MarkedPage(Str("- "), 600), 6),
      Rep(MarkedPage(Str("- "), 600), 5),
      <<MarkedPage(Str("1. "), 799)>>,
      <<MarkedPage(Str("1. "), 800)>>,
      <<MarkedPage(Str("1. "), 599)>>,
      <<MarkedPage(Str("- "), 700)>> }

AnalyzePages ==
    {[i \in DOMAIN f |-> AnalyzePageTexts[f[i]]] :
        f \in TokenSeqs(AnalyzePageTexts, MaxAnalyzePages)}
    \cup { Rep(AnalyzePageTexts[2], 4), Rep(AnalyzePageTexts[5], 6),
           <<LongPage>>, <<LongPage, AnalyzePageTexts[3]>> }

AnalyzeMetadata ==
    { [present |-> FALSE],
      [present |-> TRUE, title |-> "Embedded Title", author |-> "A. Author",
       subject |-> None, keywords |-> "old, keywords"] }

\* The page lists at the limits come without metadata, under one file name
\* and with the detector that succeeds
AnalyzeReaders ==
    {[opened |-> TRUE, metadata |-> m, pages |-> ps] :
        m \in AnalyzeMetadata, ps \in AnalyzePages}
    \cup
    {[opened |-> TRUE, metadata |-> [present |-> FALSE], pages |-> ps] :
        ps \in SlideLimitPages}

AnalyzeFilenames == { Str("notes_2024.pdf"), Str("Workshop-plan.pdf") }

AnalyzeDetectors == {det \in Detectors : det.detect_langs.kind = "ok"}

AnalyzeInit ==
    /\ pc = "main"
    /\ reader \in AnalyzeReaders
    /\ filename \in AnalyzeFilenames
    /\ detector \in AnalyzeDetectors
    /\ reader.pages \in SlideLimitPages =>
           filename = Str("notes_2024.pdf") /\ detector.detect.kind = "ok"
    /\ detector_calls = 0 /\ language = NoLanguage
    /\ title = None /\ author = None
    /\ script = "analyze_and_tag_pdf" /\ alt_text_mode = None
    /\ ANTHROPIC_AVAILABLE = FALSE
    /\ input_pdf = NoFile /\ xobjects = <<>> /\ analysis = NoAnalysis
    /\ page_texts = <<>> /\ headings_file = NoFile
    /\ saved = FALSE /\ api_log = <<>> /\ exit_code = NoExit
    /\ images = <<>> /\ headings = <<>> /\ output_pdf = NoFile
    /\ report = NoReport
    /\ text = <<>> /\ doc_type = None /\ doc_type_again = None
    /\ line = <<>> /\ is_heading = None /\ level = 0 /\ text_blocks = <<>>

\* analyze_pdf: an error of detect_language leaves no dictionary
Analyze ==
    /\ pc = "main"
    /\ text' = full_text(reader.pages)
    /\ language' = detect_language(Some(text'), detector)
    /\ detector_calls' = language'.calls
    /\ IF language'.raised
       THEN /\ pc' = "failed"
            /\ UNCHANGED <<doc_type, title, author, analysis>>
       ELSE /\ analysis' = analyze_pdf(reader, filename, language'.result)
            /\ doc_type' = analysis'.document_type
            /\ title' = extract_title_from_pdf(reader)
            /\ author' = extract_author_from_pdf(reader)
            /\ pc' = "analyzed"
    /\ UNCHANGED <<filename, doc_type_again, headVars, detector, argVars, images,
                   headings, output_pdf, report, runVars>>

AnalyzeNext == Analyze

SpecAnalyze == AnalyzeInit /\ [][AnalyzeNext]_vars

---------------------------------------------------------------------------
(* add_heading_tags.py: --export-headings in one run, and --manual-headings *)
(* with the exported file in the next.                                      *)

ExportPageChoices ==
    { Page(Str("SECTION \"A\"")),
      Page(Str("C:\\DATA\\FILES") \o <<"\n">> \o Str("plain text follows here.")),
      Page(Str("  1.1 Background Methods ") \o <<"\n">>
              \o Str("TAB") \o <<"\t">> \o Str("STOP")),
      Page(<<ch_Ouml>> \o Str("VERSIKT") \o <<"\n">> \o Str("   ")),
      Page(Str("nothing of note here.")),
      Page(Str("KEY: [1, 2], {\"a\": \"\\n\"}")) }

ExportPageTexts == UNION {[1..n -> ExportPageChoices] : n \in 0..MaxPages}

ExportInit ==
    /\ pc = "headings"
    /\ script = "add_heading_tags"
    /\ page_texts \in ExportPageTexts
    /\ headings_file = NoFile
    /\ headings = <<>>
    /\ alt_text_mode = None /\ ANTHROPIC_AVAILABLE = FALSE
    /\ input_pdf = NoFile /\ xobjects = <<>> /\ analysis = NoAnalysis
    /\ saved = FALSE /\ api_log = <<>> /\ exit_code = NoExit
    /\ images = <<>> /\ output_pdf = NoFile
    /\ report = NoReport
    /\ reader = NoReader /\ AnaIdle
    /\ text = <<>> /\ filename = <<>> /\ doc_type = None /\ doc_type_again = None
    /\ line = <<>> /\ is_heading = None /\ level = 0 /\ text_blocks = <<>>

\* main, lines 316-325: the headings are detected and written to the file
\* named by --export-headings
ExportHeadings ==
    /\ pc = "headings"
    /\ text_blocks' = extract_text_with_fonts(page_texts)
    /\ headings' = identify_headings(text_blocks')
    /\ headings_file' =
          [exists |-> TRUE,
           text   |-> json_dump(headings', <<"page", "text", "level", "block_id">>)]
    /\ pc' = "exported"
    /\ UNCHANGED <<clsVars, line, is_heading, level, anaVars, script, alt_text_mode,
                   ANTHROPIC_AVAILABLE, input_pdf, xobjects, page_texts, reader,
                   analysis, images, output_pdf, report, runVars>>

\* main, lines 311-312, of a later run whose --manual-headings is that file
LoadExportedHeadings ==
    /\ pc = "exported"
    /\ headings' = load_manual_headings(headings_file)
    /\ pc' = "loaded"
    /\ UNCHANGED <<clsVars, headVars, anaVars, argVars, analysis, images,
                   output_pdf, report, runVars>>

ExportNext == ExportHeadings \/ LoadExportedHeadings

SpecExport == ExportInit /\ [][ExportNext]_vars

---------------------------------------------------------------------------
(* add_heading_tags.py: extract_text_with_fonts on its own *)

BlockPageChoices ==
    { Page(<<>>),
      Page(Str("  ") \o <<"\n">> \o <<" ", "\t">>),
      Page(Str(" Title ") \o <<"\n", "\n">> \o Str("body text.") \o <<"\n">>),
      Page(Str("a") \o <<"\r", "\n">> \o Str("  ") \o <<"\n">> \o Str("b ")),
      Page(Str("x") \o <<"\r">> \o Str("y  z")),
      Page(Str("INTRODUCTION")),
      FailingPage }

BlockPageTexts == UNION {[1..n -> BlockPageChoices] : n \in 0..MaxPages}

BlocksInit ==
    /\ pc = "pages"
    /\ script = "add_heading_tags"
    /\ page_texts \in BlockPageTexts
    /\ text_blocks = <<>>
    /\ line = <<>> /\ is_heading = None /\ level = 0
    /\ headings_file = NoFile /\ headings = <<>>
    /\ alt_text_mode = None /\ ANTHROPIC_AVAILABLE = FALSE
    /\ input_pdf = NoFile /\ xobjects = <<>> /\ analysis = NoAnalysis
    /\ saved = FALSE /\ api_log = <<>> /\ exit_code = NoExit
    /\ images = <<>> /\ output_pdf = NoFile
    /\ report = NoReport
    /\ reader = NoReader /\ AnaIdle
    /\ text = <<>> /\ filename = <<>> /\ doc_type = None /\ doc_type_again = None

\* text_blocks = extract_text_with_fonts(args.pdf_path)
ExtractTextWithFonts ==
    /\ pc = "pages"
    /\ text_blocks' = extract_text_with_fonts(page_texts)
    /\ pc' = "blocks"
    /\ UNCHANGED <<clsVars, line, is_heading, level, anaVars, pdfVars>>

BlocksNext == ExtractTextWithFonts

SpecBlocks == BlocksInit /\ [][BlocksNext]_vars

---------------------------------------------------------------------------
(* Properties of classify_document_type *)

Categories == {DOC_TYPE_PATTERNS[i].name : i \in DOMAIN DOC_TYPE_PATTERNS}

\* The table positions of the categories with a pattern found in the file name.
FilenameHits(f) ==
    {i \in DOMAIN DOC_TYPE_PATTERNS :
        \E j \in DOMAIN DOC_TYPE_PATTERNS[i].patterns :
            Search(DOC_TYPE_PATTERNS[i].patterns[j], Lower(f))}

\* The summed number of matches of each category's patterns in the text, in
\* table order.
ContentScoreTable(t) ==
    LET tl == Lower(t) IN
    << ScoreLoop(DOC_TYPE_PATTERNS[1].patterns, 1, tl, 0),
       ScoreLoop(DOC_TYPE_PATTERNS[2].patterns, 1, tl, 0),
       ScoreLoop(DOC_TYPE_PATTERNS[3].patterns, 1, tl, 0),
       ScoreLoop(DOC_TYPE_PATTERNS[4].patterns, 1, tl, 0),
       ScoreLoop(DOC_TYPE_PATTERNS[5].patterns, 1, tl, 0),
       ScoreLoop(DOC_TYPE_PATTERNS[6].patterns, 1, tl, 0),
       ScoreLoop(DOC_TYPE_PATTERNS[7].patterns, 1, tl, 0),
       ScoreLoop(DOC_TYPE_PATTERNS[8].patterns, 1, tl, 0) >>

\* The first position of a maximal entry of the score table sc.
ArgMaxFirst(sc) ==
    CHOOSE i \in DOMAIN sc :
        /\ \A h \in DOMAIN sc : sc[h] <= sc[i]
        /\ \A h \in 1..(i - 1) : sc[h] < sc[i]

\* C1: when a pattern of some category matches the lower-cased file name, the
\* result is the first category in table order with a matching pattern,
\* whatever the content scores.
C1_FilenameFirst ==
    LET hits == FilenameHits(filename) IN
    (pc = "classified" /\ hits /= {}) =>
        \E i \in hits :
            /\ doc_type = DOC_TYPE_PATTERNS[i].name
            /\ \A h \in hits : i <= h

\* A file name whose first hit in table order is not its leftmost keyword,
\* classified against a text whose best-scoring category is another one.
C1_Witness ==
    LET sc == ContentScoreTable(text) IN
    /\ pc = "classified"
    /\ Cardinality(FilenameHits(filename)) >= 2
    /\ sc[ArgMaxFirst(sc)] > 0
    /\ doc_type /= DOC_TYPE_PATTERNS[ArgMaxFirst(sc)].name

\* C2: without a file-name match the result is a category of maximal summed
\* match count, the first in table order among those of equal maximal count.
C2_ContentArgMax ==
    LET sc == ContentScoreTable(text) IN
    (/\ pc = "classified"
     /\ FilenameHits(filename) = {}
     /\ \E i \in DOMAIN sc : sc[i] > 0) =>
        doc_type = DOC_TYPE_PATTERNS[ArgMaxFirst(sc)].name

\* Two categories tie at a maximum of two or more matches and no file-name
\* pattern matches: the earlier one in table order is returned.
C2_Witness ==
    LET sc == ContentScoreTable(text) IN
    /\ pc = "classified"
    /\ FilenameHits(filename) = {}
    /\ sc[ArgMaxFirst(sc)] >= 2
    /\ \E h \in DOMAIN sc : h > ArgMaxFirst(sc) /\ sc[h] = sc[ArgMaxFirst(sc)]
    /\ doc_type = DOC_TYPE_PATTERNS[ArgMaxFirst(sc)].name

\* C3: the result is one of the eight categories or "document", and it is
\* "document" exactly when no file-name pattern matches and every content
\* score is zero.
C3_NineNames ==
    LET sc == ContentScoreTable(text) IN
    pc = "classified" =>
        /\ doc_type \in Categories \cup {"document"}
        /\ doc_type = "document" <=>
              /\ FilenameHits(filename) = {}
              /\ \A i \in DOMAIN sc : sc[i] = 0

\* A non-empty text whose keywords miss their word boundaries, with a file
\* name that matches nothing: the fallback is taken.
C3_Witness ==
    /\ pc = "classified"
    /\ doc_type = "document"
    /\ Len(text) > 5
    /\ Len(filename) > 4

\* C4: "Lecture_01_Introduction.pdf" with an empty text is classified as
\* "lecture" by the file-name match alone.
C4_LectureFilename ==
    (/\ pc = "classified"
     /\ filename = Str("Lecture_01_Introduction.pdf")
     /\ text = <<>>) => doc_type = "lecture"

---------------------------------------------------------------------------
(* Properties of the heading heuristic *)

\* C5: "1.1 Background Methods" is a heading and gets level 3.
C5_NumberedLevel3 ==
    (pc = "block" /\ line = Str("1.1 Background Methods")) =>
        (is_heading = TRUE /\ level = 3)

\* C6: a line longer than 100 characters, or ending in '.' or ',', is never a
\* heading, whatever accept trigger it satisfies.
C6_RejectionWins ==
    (/\ pc = "block"
     /\ \/ Len(line) > 100
        \/ (Len(line) > 0 /\ line[Len(line)] \in {".", ","})) =>
        is_heading = FALSE

\* A rejected line that is fully upper-case, longer than 3 characters and
\* starts with a digit.
C6_Witness ==
    /\ pc = "block"
    /\ Len(line) > 3 /\ Len(line) <= 100
    /\ line[Len(line)] = ","
    /\ line[1] \in DigitChars
    /\ \E i \in 1..Len(line) : line[i] \in UpperChars
    /\ \A i \in 1..Len(line) : line[i] \notin LowerChars
    /\ is_heading = FALSE

\* C8: the estimated level is an integer in [1,6] for every line.
C8_LevelRange ==
    pc = "block" => level \in 1..6

\* The level of a one-character line, a single digit, has been estimated: the
\* slice line[1:2] is empty there.
C8_Witness ==
    /\ pc = "block"
    /\ Len(line) = 1
    /\ line[1] \in DigitChars
    /\ level = 2

FullyUpperCase(ln) ==
    /\ \E i \in DOMAIN ln : ln[i] \in UpperChars
    /\ \A i \in DOMAIN ln : ln[i] \notin LowerChars

Rejected(ln) == Len(ln) > 100 \/ (ln /= <<>> /\ ln[Len(ln)] \in {".", ","})

\* C22: a fully upper-case line with more than 3 and fewer than 30 characters
\* that does not end in '.' or ',' is a heading of level 1.
C22_ShortCapsLevel1 ==
    (/\ pc = "block"
     /\ FullyUpperCase(line)
     /\ Len(line) > 3 /\ Len(line) < 30
     /\ line[Len(line)] \notin {".", ","}) =>
        (is_heading = TRUE /\ level = 1)

\* An upper-case line of 16 characters that starts with a digit.
C22_Witness ==
    /\ pc = "block"
    /\ line = Str("1") \o Rep("X", 15)
    /\ is_heading = TRUE /\ level = 1

---------------------------------------------------------------------------
(* Properties of the alt-text workflow *)

\* C9: in automatic mode with the description API unavailable,
\* add_alt_text_auto leaves every image record with alt_text = "".
C9_UnavailableEmptyAltText ==
    (/\ alt_text_mode = "auto"
     /\ ~ANTHROPIC_AVAILABLE
     /\ pc = "create") =>
        \A i \in DOMAIN images : images[i].alt_text = ""

\* C10: automatic mode with the description API unavailable, on a PDF with at
\* least one image, does not fail hard: the output is written with a
\* StructTreeRoot and MarkInfo.Marked true, and its Document element holds no
\* Figure element.
C10_UnavailableDegrades ==
    (/\ alt_text_mode = "auto"
     /\ ~ANTHROPIC_AVAILABLE
     /\ \E k \in DOMAIN xobjects : xobjects[k].Subtype = "/Image") =>
        /\ pc /= "failed"
        /\ pc = "done" =>
             /\ Has(output_pdf.Root, "StructTreeRoot")
             /\ Get(Get(output_pdf.Root, "MarkInfo", <<>>), "Marked", FALSE) = TRUE
             /\ CountFigures(Get(output_pdf.Root.StructTreeRoot.K[1], "K", <<>>)) = 0

---------------------------------------------------------------------------
(* Properties of the heading tags *)

HeadingTags == {"/H1", "/H2", "/H3", "/H4", "/H5", "/H6"}

\* C7: every heading element written into the structure tree carries a tag in
\* H1..H6, whether the heading was detected or loaded from a manual headings
\* file with any integer level (0, negative or above 6 included).
C7_HeadingTagsClamped ==
    pc \in {"verify", "done"} =>
        LET doc == output_pdf.Root.StructTreeRoot.K[1] IN
        \A i \in DOMAIN Get(doc, "K", <<>>) :
            Has(doc.K[i], "T") => doc.K[i].S \in HeadingTags

---------------------------------------------------------------------------
(* Properties of the runs of the combined workflow *)

\* C11: every run of run_complete_workflow that passes the input-file check,
\* in every alt-text mode and for any number of images, writes the output PDF
\* and then reaches the verification pass, which does not raise.
C11_AlwaysWritesOutput ==
    /\ pc /= "failed"
    /\ pc \in {"step3", "done", "exited"} /\ input_pdf /= NoFile => saved

\* C12: the combined workflow exits with 1 when the input file is missing;
\* otherwise it exits with 0 exactly when it has written the output and every
\* item of the checklist holds on it (StructTreeRoot, Marked, DisplayDocTitle,
\* Lang, Title, Author), and with 1 when an item is missing.  The Author entry
\* is written only when a non-empty author was found.
C12_ExitStatus ==
    exit_code.exited =>
        IF input_pdf = NoFile THEN exit_code.code = 1
        ELSE /\ exit_code.code \in {0, 1}
             /\ exit_code.code = 0 <=>
                  /\ saved
                  /\ Has(output_pdf.Root, "StructTreeRoot")
                  /\ Get(Get(output_pdf.Root, "MarkInfo", <<>>), "Marked", FALSE)
                  /\ Get(Get(output_pdf.Root, "ViewerPreferences", <<>>),
                         "DisplayDocTitle", FALSE)
                  /\ Has(output_pdf.Root, "Lang")
                  /\ Has(output_pdf.docinfo, "Title")
                  /\ Has(output_pdf.docinfo, "Author")
             /\ (saved /\ analysis.suggested_author = "") =>
                  (Has(output_pdf.docinfo, "Author") <=> Has(input_pdf.docinfo, "Author"))

\* C13: in automatic generation a failing API call for one image is caught:
\* that image gets alt_text = "", no error propagates, and every other image
\* keeps the (stripped) result of its own call.
C13_ApiFailureCaught ==
    (alt_text_mode = "auto" /\ ANTHROPIC_AVAILABLE /\ api_log /= <<>>) =>
        /\ pc /= "failed"
        /\ DOMAIN images = DOMAIN api_log
        /\ \A i \in DOMAIN images :
              images[i].alt_text =
                  IF api_log[i] = "error" THEN "" ELSE Unstr(Strip(Str(api_log[i])))

\* The API call failed for the first image and answered for the second one.
C13_Witness ==
    /\ alt_text_mode = "auto" /\ ANTHROPIC_AVAILABLE
    /\ pc = "create"
    /\ Len(images) = 2
    /\ api_log[1] = "error" /\ images[1].alt_text = ""
    /\ api_log[2] /= "error" /\ images[2].alt_text = "A chart of sales."

---------------------------------------------------------------------------
(* Properties of detect_language *)

\* C14: detect_language never propagates an error: whatever exception the
\* external detector raises, the result is exactly ("en", [("en", 1.0)]).
C14_NoErrorPropagates ==
    pc \in {"language", "failed"} =>
        /\ ~language.raised
        /\ (\/ detector_calls >= 1 /\ detector.detect.kind /= "ok"
            \/ detector_calls >= 2 /\ detector.detect_langs.kind /= "ok") =>
               language.result = DefaultLanguage

\* C15: for a text shorter than 10 characters, the empty and the absent text
\* included, detect_language returns exactly ("en", [("en", 1.0)]) and does
\* not call the external detector.
C15_ShortTextDefault ==
    (/\ pc \in {"language", "failed"}
     /\ ~text.some \/ Len(text.value) < 10) =>
        /\ language.returned
        /\ language.result = DefaultLanguage
        /\ detector_calls = 0

\* A text of 9 characters has been given to detect_language, with a detector
\* that would have named another language.
C15_Witness ==
    /\ pc = "language"
    /\ text.some /\ text.value = Rep("x", 9)
    /\ detector.detect.kind = "ok" /\ detector.detect_langs.kind = "ok"
    /\ language.result = DefaultLanguage
    /\ detector_calls = 0

---------------------------------------------------------------------------
(* Properties of the suggested title *)

\* The first line of page one that is not blank, trimmed; <<>> when the reader
\* has no page or page one has no such line.
FirstNonEmptyLine(rd) ==
    IF rd.pages = <<>> THEN <<>>
    ELSE LET lines == SplitLines(rd.pages[1])
             full  == {i \in DOMAIN lines : \E k \in DOMAIN lines[i] :
                                                lines[i][k] \notin SpaceChars}
         IN  IF full = {} THEN <<>>
             ELSE Strip(lines[CHOOSE i \in full : \A j \in full : i <= j])

\* C16: the suggested title is (a) the embedded title when present and not
\* empty, else (b) the first non-empty trimmed line of page one when it has
\* fewer than 100 characters, else (c) the file name's stem with '_' and '-'
\* replaced by spaces, title-cased; no later line is tried.
C16_TitleFallback ==
    pc = "titled" =>
        LET first == FirstNonEmptyLine(reader)
            stem  == Replace(Replace(Stem(filename), "_", " "), "-", " ")
        IN  analysis.suggested_title =
              IF reader.metadata.present /\ reader.metadata.title \notin {None, ""}
              THEN reader.metadata.title
              ELSE IF first /= <<>> /\ Len(first) < 100 THEN Unstr(first)
              ELSE Unstr(TitleCase(stem))

\* No embedded title, a first line of 100 characters followed by a short
\* line: the title comes from the file name.
C16_Witness ==
    /\ pc = "titled"
    /\ ~reader.metadata.present
    /\ reader.pages = <<Rep("y", 100) \o <<"\n">> \o Str(" A Short Title ")>>
    /\ filename = Str("my_course-notes.pdf")
    /\ analysis.suggested_title = "My Course Notes"

---------------------------------------------------------------------------
(* Properties of extract_author_from_pdf *)

NoEmbeddedAuthor(rd) ==
    ~rd.metadata.present \/ rd.metadata.author \in {None, ""}
        \/ \A i \in DOMAIN Str(rd.metadata.author) :
              Str(rd.metadata.author)[i] \in SpaceChars

\* The non-empty lines of page one among which the author is looked for
ScannedLines(rd) ==
    IF rd.pages = <<>> THEN <<>> ELSE Slice(StrippedLines(rd.pages[1]), 1, 10)

\* The author taken from the lines whose length is in lengths: the candidate
\* of the first such line, and on it of the first pattern, that is valid,
\* with its prefix removed; None when there is none.
FirstCandidate(lines, lengths) ==
    LET hits == {h \in (DOMAIN lines) \X (DOMAIN author_patterns) :
                    /\ Len(lines[h[1]]) \in lengths
                    /\ Candidate(lines[h[1]], h[2]).matched}
    IN  IF hits = {} THEN None
        ELSE LET h == CHOOSE x \in hits : \A y \in hits :
                          x[1] < y[1] \/ (x[1] = y[1] /\ x[2] <= y[2])
             IN  Unstr(Strip(RemovePrefix(Candidate(lines[h[1]], h[2]).group)))

\* C17 (as stated): with no embedded author, the author is the first valid
\* candidate of the first ten non-empty lines of page one, lines in order and
\* patterns in list order, with its prefix removed; absent, and suggested as
\* the empty string, when no line yields one.
C17_FirstCandidateOfAnyLine ==
    pc = "authored" /\ NoEmbeddedAuthor(reader) =>
        /\ author = FirstCandidate(ScannedLines(reader), Nat)
        /\ (author = None => analysis.suggested_author = "")

\* C17 (amended): the same, among the lines of 3 to 100 characters; a shorter
\* or longer line is passed over without trying the patterns on it.
C17_FirstCandidate ==
    pc = "authored" /\ NoEmbeddedAuthor(reader) =>
        /\ author = FirstCandidate(ScannedLines(reader), 3..100)
        /\ (author = None => analysis.suggested_author = "")

\* A line of 104 characters whose address pattern gives the valid candidate
\* "Jo" is passed over, and the author comes from the line after it.
C17_Witness ==
    /\ pc = "authored"
    /\ ~reader.metadata.present
    /\ reader.pages = <<LongAddressLine \o <<"\n">> \o Str("par: by Anna")>>
    /\ Candidate(LongAddressLine, 6) = Group(Str("Jo"))
    /\ author = "Anna"

\* The pattern that gives the author: the one of the first valid candidate
\* of the scanned lines of 3 to 100 characters; 0 when there is none.
AcceptingPattern(lines) ==
    LET hits == {h \in (DOMAIN lines) \X (DOMAIN author_patterns) :
                    /\ Len(lines[h[1]]) \in 3..100
                    /\ Candidate(lines[h[1]], h[2]).matched}
    IN  IF hits = {} THEN 0
        ELSE (CHOOSE x \in hits : \A y \in hits :
                  x[1] < y[1] \/ (x[1] = y[1] /\ x[2] <= y[2]))[2]

\* Two or three words, each an upper-case letter followed by one or more
\* lower-case letters, with blanks between them
CapitalizedName(cs) ==
    LET starts == {i \in DOMAIN cs : /\ cs[i] \notin SpaceChars
                                     /\ (i = 1 \/ cs[i - 1] \in SpaceChars)}
    IN  /\ cs /= <<>> /\ cs[1] \notin SpaceChars /\ cs[Len(cs)] \notin SpaceChars
        /\ Cardinality(starts) \in {2, 3}
        /\ \A i \in starts : /\ cs[i] \in Range(Str("ABCDEFGHIJKLMNOPQRSTUVWXYZ"))
                             /\ i < Len(cs) /\ cs[i + 1] \notin SpaceChars
        /\ \A i \in DOMAIN cs \ starts :
              cs[i] \in SpaceChars \cup Range(Str("abcdefghijklmnopqrstuvwxyz"))

\* C25: an author that the bare-name pattern (the second of the list) gave
\* is a line of two or three capitalized words; a line of all-lower-case
\* words is not accepted by it.
C25_NameNeedsCapitals ==
    pc = "authored" /\ NoEmbeddedAuthor(reader)
        /\ AcceptingPattern(ScannedLines(reader)) = 2 =>
            CapitalizedName(Str(author))

\* C27: an author taken from the text of page one is not empty and has 2 to
\* 50 characters.
C27_ReturnedAuthorLength ==
    pc = "authored" /\ NoEmbeddedAuthor(reader) /\ author /= None =>
        /\ author /= ""
        /\ 2 <= Len(Str(author)) /\ Len(Str(author)) <= 50

---------------------------------------------------------------------------
(* Properties of the analysis record *)

FormatTags == {"slides", "text-document"}

\* The strings of a list written one after the other, ", " between them
Listed(strs) ==
    Unstr(Concat([i \in DOMAIN strs |->
                     (IF i > 1 THEN Str(", ") ELSE <<>>) \o Str(strs[i])]))

\* C18: the subject is the title-cased document type, " - ", and the first
\* three tags joined by ", "; the keywords are all tags joined by ", " in
\* generation order; the tags begin with the document type, followed by the
\* only format tag of the list.
C18_SubjectKeywordsTags ==
    pc = "analyzed" =>
        LET tags == analysis.tags IN
        /\ Len(tags) >= 2
        /\ tags[1] = analysis.document_type
        /\ tags[2] \in FormatTags
        /\ \A i \in DOMAIN tags : tags[i] \in FormatTags => i = 2
        /\ analysis.suggested_subject =
              Unstr(TitleCase(Str(analysis.document_type))) \o " - "
                 \o Listed([i \in 1..(IF Len(tags) < 3 THEN Len(tags) ELSE 3) |-> tags[i]])
        /\ analysis.suggested_keywords = Listed(tags)

\* A lecture in slides with a topic tag and a length tag: the subject stops
\* after the third of four tags.
C18_Witness ==
    /\ pc = "analyzed"
    /\ analysis.tags = <<"lecture", "slides", "visual-content", "brief">>
    /\ analysis.suggested_subject = "Lecture - lecture, slides, visual-content"
    /\ analysis.suggested_keywords = "lecture, slides, visual-content, brief"

---------------------------------------------------------------------------
(* Properties of the headings file *)

\* The headings the detection finds in the pages of the run that exported
DetectedHeadings == identify_headings(extract_text_with_fonts(page_texts))

\* C19: the headings loaded from the exported file are as many as those
\* exported, in the same order, each with the same page, text and level.
C19_ExportLoadRoundTrip ==
    pc = "loaded" =>
        /\ Len(headings) = Len(DetectedHeadings)
        /\ \A i \in DOMAIN headings :
              /\ headings[i].page  = DetectedHeadings[i].page
              /\ headings[i].text  = DetectedHeadings[i].text
              /\ headings[i].level = DetectedHeadings[i].level

\* Two pages whose headings hold quotes, backslashes and a tab were exported
\* and loaded.
C19_Witness ==
    /\ pc = "loaded"
    /\ Len(headings) = 3
    /\ headings[1].text = Str("C:\\DATA\\FILES") /\ headings[1].page = 1
    /\ headings[2].text = Str("1.1 Background Methods") /\ headings[2].level = 2
    /\ headings[3].text = Str("TAB") \o <<"\t">> \o Str("STOP") /\ headings[3].page = 2

---------------------------------------------------------------------------
(* Properties of extract_text_with_fonts *)

\* The positions of the newlines of a text, and the l-th of the lines they
\* separate
Newlines(t) == {i \in DOMAIN t : t[i] = "\n"}

NthNewline(t, n) ==
    CHOOSE i \in Newlines(t) : Cardinality({j \in Newlines(t) : j <= i}) = n

LineAt(t, l) ==
    Slice(t, IF l = 1 THEN 1 ELSE NthNewline(t, l - 1) + 1,
             IF l = Cardinality(Newlines(t)) + 1 THEN Len(t)
             ELSE NthNewline(t, l) - 1)

\* The lines that are not blank, as <<page number, line number>>
FullLines ==
    UNION {{<<p, l>> : l \in {n \in 1..(Cardinality(Newlines(page_texts[p].text)) + 1) :
                                \E c \in Range(LineAt(page_texts[p].text, n)) :
                                    c \notin SpaceChars}} :
           p \in {q \in DOMAIN page_texts : ~page_texts[q].raises}}

NotAfter(a, b) == a[1] < b[1] \/ (a[1] = b[1] /\ a[2] <= b[2])

\* C20: the records are, for the pages in order and the lines of each page in
\* order, one per line that is not blank, with the line's text without the
\* blanks around it and the 1-based number of its page; blank lines and
\* pages without text give no record.
C20_OneRecordPerLine ==
    pc = "blocks" =>
        /\ Len(text_blocks) = Cardinality(FullLines)
        /\ \A pl \in FullLines :
              LET k  == Cardinality({q \in FullLines : NotAfter(q, pl)})
                  ln == LineAt(page_texts[pl[1]].text, pl[2])
              IN  /\ text_blocks[k].page = pl[1]
                  /\ text_blocks[k].text = Strip(ln)
                  /\ text_blocks[k].text[1] \notin SpaceChars
                  /\ text_blocks[k].text[Len(text_blocks[k].text)] \notin SpaceChars

\* A blank first page, then a page with a blank line between two lines that
\* have blanks around them: both records are of page 2.
C20_Witness ==
    /\ pc = "blocks"
    /\ page_texts = <<Page(Str("  ") \o <<"\n">> \o <<" ", "\t">>),
                      Page(Str("a") \o <<"\r", "\n">> \o Str("  ") \o <<"\n">> \o Str("b "))>>
    /\ Len(text_blocks) = 2
    /\ text_blocks[1].text = Str("a") /\ text_blocks[1].page = 2
    /\ text_blocks[2].text = Str("b") /\ text_blocks[2].page = 2


---------------------------------------------------------------------------
(* Properties of the structure tree after tagging *)

AfterTagging == pc \in {"tagged", "tagged again"}

\* The images that get a Figure element
WithAltText(imgs) == SelectSeq(imgs, LAMBDA img : img.alt_text \notin {None, ""})

\* The tree of the PDF has a first element
HasFirstChild(pdf) ==
    Has(pdf.Root, "StructTreeRoot") /\ Get(pdf.Root.StructTreeRoot, "K", <<>>) /= <<>>

\* The children of the first element of the tree of a PDF
FirstChildren(pdf) == Get(pdf.Root.StructTreeRoot.K[1], "K", <<>>)

\* C28: after create_complete_structure_tree, whatever tree the input had,
\* StructTreeRoot.K holds one Document element and nothing else; its
\* children are one heading element per heading, in the order of the list,
\* then one Figure per image with non-empty alt text, in the order of the
\* images, and no other element.
C28_OneDocumentElement ==
    AfterTagging /\ script = "complete_accessibility_with_headings" =>
        LET K        == output_pdf.Root.StructTreeRoot.K
            children == K[1].K
            figures  == WithAltText(images)
        IN  /\ Len(K) = 1
            /\ K[1].S = "/Document"
            /\ Len(children) = Len(headings) + Len(figures)
            /\ \A i \in DOMAIN headings :
                  /\ SubSeq(Str(children[i].S), 1, 2) = Str("/H")
                  /\ children[i].T = headings[i].text
            /\ \A j \in DOMAIN figures :
                  /\ children[Len(headings) + j].S = "/Figure"
                  /\ children[Len(headings) + j].Alt = figures[j].alt_text

\* A tree of two elements, the first with two children, is replaced by one
\* Document element with two headings and the one figure of two images.
C28_Witness ==
    /\ pc = "tagged" /\ script = "complete_accessibility_with_headings"
    /\ HasFirstChild(input_pdf)
    /\ Len(input_pdf.Root.StructTreeRoot.K) = 2
    /\ Len(FirstChildren(input_pdf)) = 2
    /\ Len(headings) = 2 /\ headings[1] /= headings[2]
    /\ Len(images) = 2 /\ images[1].alt_text = "" /\ images[2].alt_text = "a chart"
    /\ Len(output_pdf.Root.StructTreeRoot.K) = 1
    /\ Len(FirstChildren(output_pdf)) = 3
    /\ FirstChildren(output_pdf)[3].Alt = "a chart"

\* The elements that a run of the script appends
AppendedElements ==
    IF script = "add_heading_tags" THEN MapSeq(HeadingElem, headings)
    ELSE [j \in DOMAIN WithAltText(images) |->
             [Type |-> "/StructElem", S |-> "/Figure",
              Alt |-> WithAltText(images)[j].alt_text, K |-> <<>>]]

\* C29: when the tree of the input has a first element, the elements of the
\* tree are as many as before, the first keeps its entries other than /K and
\* the others are unchanged; the children of the first are those it had, in
\* their order, followed by the new Figure or heading elements.
C29_ExistingTreeKept ==
    AfterTagging /\ script \in {"add_alt_text_to_images", "add_heading_tags"}
        /\ HasFirstChild(input_pdf) =>
        LET old == input_pdf.Root.StructTreeRoot.K
            new == output_pdf.Root.StructTreeRoot.K
            n   == Len(FirstChildren(input_pdf))
        IN  /\ Len(new) = Len(old)
            /\ \A i \in 2..Len(old) : new[i] = old[i]
            /\ DOMAIN new[1] \ {"K"} = DOMAIN old[1] \ {"K"}
            /\ \A k \in DOMAIN old[1] \ {"K"} : new[1][k] = old[1][k]
            /\ Len(FirstChildren(output_pdf)) = n + Len(AppendedElements)
            /\ \A i \in 1..n : FirstChildren(output_pdf)[i] = FirstChildren(input_pdf)[i]
            /\ \A j \in DOMAIN AppendedElements :
                  FirstChildren(output_pdf)[n + j] = AppendedElements[j]

\* The second run on a PDF whose Document element had a heading and a
\* figure: the figure of the image is there twice, after the two.
C29_Witness ==
    /\ pc = "tagged again" /\ script = "add_alt_text_to_images"
    /\ Len(images) = 1 /\ images[1].alt_text = "a photo"
    /\ HasFirstChild(input_pdf)
    /\ Len(FirstChildren(input_pdf)) = 3
    /\ Len(FirstChildren(output_pdf)) = 4
    /\ FirstChildren(output_pdf)[1] = OldHeading
    /\ FirstChildren(output_pdf)[2] = OldFigure
    /\ FirstChildren(output_pdf)[3].Alt = "a photo"
    /\ FirstChildren(output_pdf)[4] = FirstChildren(output_pdf)[3]

\* C30: after add_structure_tree_to_pdf, enhance_pdf_accessibility,
\* add_alt_text_to_pdf or add_heading_structure_tree has saved its output,
\* the catalog has a StructTreeRoot, MarkInfo.Marked and
\* ViewerPreferences.DisplayDocTitle are true; a ViewerPreferences that was
\* there keeps its other entries and gets no further one; a StructTreeRoot
\* that was there keeps its entries other than /K, and the elements of its
\* /K keep their places.
C30_FlagsAfterTagging ==
    AfterTagging /\ script /= "complete_accessibility_with_headings" =>
        LET old == input_pdf.Root
            new == output_pdf.Root
        IN  /\ Has(new, "StructTreeRoot")
            /\ Has(new, "MarkInfo") /\ Has(new.MarkInfo, "Marked")
            /\ new.MarkInfo.Marked = TRUE
            /\ Has(new, "ViewerPreferences")
            /\ Has(new.ViewerPreferences, "DisplayDocTitle")
            /\ new.ViewerPreferences.DisplayDocTitle = TRUE
            /\ Has(old, "ViewerPreferences") =>
                  /\ DOMAIN new.ViewerPreferences =
                        DOMAIN old.ViewerPreferences \cup {"DisplayDocTitle"}
                  /\ \A k \in DOMAIN old.ViewerPreferences \ {"DisplayDocTitle"} :
                        new.ViewerPreferences[k] = old.ViewerPreferences[k]
            /\ Has(old, "StructTreeRoot") =>
                  /\ DOMAIN old.StructTreeRoot \subseteq DOMAIN new.StructTreeRoot
                  /\ \A k \in DOMAIN old.StructTreeRoot \ {"K"} :
                        new.StructTreeRoot[k] = old.StructTreeRoot[k]
                  /\ Has(old.StructTreeRoot, "K") =>
                        /\ Len(new.StructTreeRoot.K) >= Len(old.StructTreeRoot.K)
                        /\ \A i \in DOMAIN old.StructTreeRoot.K :
                              new.StructTreeRoot.K[i].S = old.StructTreeRoot.K[i].S

\* A tagged input whose MarkInfo has no Marked and whose ViewerPreferences
\* has another entry: the flags are set, the entry and the role map of the
\* tree are kept.
C30_Witness ==
    /\ pc = "tagged" /\ script = "enhance_pdf_accessibility"
    /\ Get(input_pdf.Root, "MarkInfo", <<>>) = [Suspects |-> TRUE]
    /\ input_pdf.Root.StructTreeRoot.RoleMap = [Heading |-> "/H1"]
    /\ output_pdf.Root.MarkInfo.Marked = TRUE
    /\ output_pdf.Root.ViewerPreferences =
          [DisplayDocTitle |-> TRUE, FitWindow |-> TRUE]
    /\ output_pdf.Root.StructTreeRoot = input_pdf.Root.StructTreeRoot

====
